---------------------------- MODULE Spec2Model ----------------------------
(***************************************************************************)
(* A model of kimchi's public-input-only prover                            *)
(* (kimchi/src/public_input_only_prover.rs): the hard-coded verifier       *)
(* index, the staged proof construction of                                 *)
(* create_recursive_public_input_only with its Fiat-Shamir transcript, and *)
(* the verifier the proofs are designed for.                               *)
(*                                                                         *)
(* Field elements are integers modulo the prime P.  A curve point is the   *)
(* vector of its coordinates with respect to the independent SRS           *)
(* generators g[0], ..., g[SrsSize-1], h: a binding, homomorphic           *)
(* commitment.  Option<T> is the empty sequence (None) or <<x>> (Some).    *)
(***************************************************************************)
EXTENDS Integers, Sequences, FiniteSets, TLC

(***************************************************************************)
(* Parameters of the instance.                                             *)
(***************************************************************************)
\* The scalar field's modulus: 84 divides P - 1, so the field has a domain of
\* size 4, 7 pairwise distinct cosets of it and a cube root of unity.
P == 337
\* A generator of the field's multiplicative group.
FieldGenerator == 10
\* d1_size: the size of the evaluation domain, a power of two.
N == 4
COLUMNS == 15
PERMUTS == 7
\* The bit length of a squeezed challenge (128 in the code).
ChalBits == 8

\* Bounds of the model.
\* Witness values are drawn from 0 .. MaxVal.
MaxVal == 1
\* At most MaxPrev recursion challenges are passed in.
MaxPrev == 1

(***************************************************************************)
(* Field arithmetic.                                                       *)
(***************************************************************************)
Fadd(a, b) == (a + b) % P
Fsub(a, b) == (a - b + P) % P
Fneg(a) == (P - a) % P
Fmul(a, b) == (a * b) % P

RECURSIVE Fpow(_, _)
Fpow(a, e) ==
    IF e = 0 THEN 1
    ELSE LET h == Fpow(a, e \div 2)
             s == Fmul(h, h)
         IN  IF e % 2 = 1 THEN Fmul(s, a) ELSE s

\* Field::inverse, by Fermat; the inverse of 0 is reported as 0.
Finv(a) == Fpow(a, P - 2)

\* domain.group_gen: a primitive N-th root of unity.
omega == Fpow(FieldGenerator, (P - 1) \div N)

\* G::endos(): a primitive cube root of unity.
endo_r == Fpow(FieldGenerator, (P - 1) \div 3)

\* permutation::Shifts::new: shifts[i], i in 0 .. PERMUTS-1, pairwise distinct
\* coset representatives of the domain, shifts[0] = 1.
Shift(i) == Fpow(FieldGenerator, i)

(***************************************************************************)
(* Sequences.                                                              *)
(***************************************************************************)
\* The recursions over a sequence split it in halves, to stay shallow.
FirstHalf(s) == SubSeq(s, 1, Len(s) \div 2)
SecondHalf(s) == SubSeq(s, Len(s) \div 2 + 1, Len(s))

RECURSIVE SeqSum(_)
SeqSum(s) ==
    IF s = <<>> THEN 0
    ELSE IF Len(s) = 1 THEN s[1] % P
    ELSE Fadd(SeqSum(FirstHalf(s)), SeqSum(SecondHalf(s)))

RECURSIVE Flatten(_)
Flatten(ss) ==
    IF ss = <<>> THEN <<>>
    ELSE IF Len(ss) = 1 THEN ss[1]
    ELSE Flatten(FirstHalf(ss)) \o Flatten(SecondHalf(ss))

Repeat(x, n) == [i \in 1 .. n |-> x]

\* All sequences over S of length at most n.
SeqsUpTo(S, n) == UNION {[1 .. k -> S] : k \in 0 .. n}

(***************************************************************************)
(* Dense polynomials: coefficient sequences, constant term first, with no  *)
(* trailing zero (DensePolynomial::from_coefficients_vec truncates them).  *)
(***************************************************************************)
RECURSIVE from_coefficients_vec(_)
from_coefficients_vec(c) ==
    IF c = <<>> THEN <<>>
    ELSE IF c[Len(c)] = 0 THEN from_coefficients_vec(SubSeq(c, 1, Len(c) - 1))
    ELSE c

Coeff(p, j) == IF j + 1 <= Len(p) THEN p[j + 1] ELSE 0

PolyNeg(p) == [i \in 1 .. Len(p) |-> Fneg(p[i])]

RECURSIVE PolyEval(_, _)
PolyEval(p, x) ==
    IF p = <<>> THEN 0 ELSE Fadd(Head(p), Fmul(x, PolyEval(Tail(p), x)))

\* The inverse DFT's matrix: omega^(-ij) / N.
InverseDft ==
    [i \in 1 .. N |-> [j \in 1 .. N |->
        Fmul(Finv(N % P), Fpow(Finv(omega), (i - 1) * (j - 1)))]]

\* Evaluations::interpolate over the domain {omega^i}: the inverse DFT.
Interpolate(evals) ==
    from_coefficients_vec(
        [j \in 1 .. N |->
            SeqSum([i \in 1 .. N |-> Fmul(evals[i], InverseDft[i][j])])])

one_polynomial == from_coefficients_vec(<<1>>)
zero_polynomial == from_coefficients_vec(<<>>)

(***************************************************************************)
(* The SRS and commitments.                                                *)
(***************************************************************************)
\* srs.g.len(): SRS::create(domain.d1.size()).
SrsSize == N

\* Curve points: coordinate vectors over g[0..SrsSize-1] (positions
\* 1..SrsSize) and h (position SrsSize+1).
GZero == [k \in 1 .. SrsSize + 1 |-> 0]
SrsG(i) == [k \in 1 .. SrsSize + 1 |-> IF k = i + 1 THEN 1 ELSE 0]
SrsH == [k \in 1 .. SrsSize + 1 |-> IF k = SrsSize + 1 THEN 1 ELSE 0]
GAdd(a, b) == [k \in 1 .. SrsSize + 1 |-> Fadd(a[k], b[k])]
GNeg(a) == [k \in 1 .. SrsSize + 1 |-> Fneg(a[k])]
GMul(a, s) == [k \in 1 .. SrsSize + 1 |-> Fmul(a[k], s)]

RECURSIVE GSum(_)
GSum(s) ==
    IF s = <<>> THEN GZero
    ELSE IF Len(s) = 1 THEN s[1]
    ELSE GAdd(GSum(FirstHalf(s)), GSum(SecondHalf(s)))

\* PolyComm { unshifted, shifted: None }
PolyComm(unshifted) == [unshifted |-> unshifted, shifted |-> <<>>]
make_comm(comm) == PolyComm(<<comm>>)

\* The commitment to the polynomial p with blinding factor b:
\* sum_j p[j] * g[j] + b * h.
Commit(p, b) ==
    GAdd(GSum([j \in 1 .. Len(p) |-> GMul(SrsG(j - 1), p[j])]), GMul(SrsH, b))

\* srs.add_lagrange_basis: the unblinded commitments to the Lagrange
\* polynomials of the domain.
lagrange_bases ==
    [i \in 1 .. N |->
        Commit(Interpolate([k \in 1 .. N |-> IF k = i THEN 1 ELSE 0]), 0)]
LagrangeBasis(i) == lagrange_bases[i + 1]

\* srs.commit_evaluations_non_hiding: a multi-scalar multiplication of the
\* Lagrange basis by the evaluations.
commit_evaluations_non_hiding(evals) ==
    PolyComm(<<GSum([i \in 1 .. N |-> GMul(LagrangeBasis(i - 1), evals[i])])>>)

\* PolyComm::chunk_commitment / chunk_blinding: sum_i x^i * c[i].
chunk_commitment(c, x) ==
    GSum([i \in 1 .. Len(c.unshifted) |-> GMul(c.unshifted[i], Fpow(x, i - 1))])
chunk_blinding(c, x) ==
    SeqSum([i \in 1 .. Len(c.unshifted) |-> Fmul(c.unshifted[i], Fpow(x, i - 1))])

(***************************************************************************)
(* The sponges (DefaultFqSponge, DefaultFrSponge): a deterministic         *)
(* absorb/squeeze state machine.  The state is one accumulator.            *)
(***************************************************************************)
SpongeModulus == 10007
SpongeMix == 131

\* EFqSponge::new(G::OtherCurve::sponge_params()), EFrSponge::new(G::sponge_params())
FqSpongeNew == [acc |-> 1]
FrSpongeNew == [acc |-> 2]

\* The permutation steps acc := acc * SpongeMix + c, one per element of cs,
\* in order, composed as the affine map acc |-> a * acc + b.
RECURSIVE SpongeSteps(_)
SpongeSteps(cs) ==
    IF cs = <<>> THEN [a |-> 1, b |-> 0]
    ELSE IF Len(cs) = 1 THEN [a |-> SpongeMix, b |-> cs[1] % SpongeModulus]
    ELSE LET l == SpongeSteps(FirstHalf(cs))
             r == SpongeSteps(SecondHalf(cs))
         IN  [a |-> (l.a * r.a) % SpongeModulus,
              b |-> (r.a * l.b + r.b) % SpongeModulus]

SpongeRun(sp, cs) ==
    LET m == SpongeSteps(cs)
    IN  [acc |-> (m.a * sp.acc + m.b) % SpongeModulus]

\* absorb: one element after the other, each followed by a permutation.
SpongeAbsorb(sp, xs) == SpongeRun(sp, [i \in 1 .. Len(xs) |-> xs[i] + 1])

\* challenge(): the squeezed value, of ChalBits bits, and the next state.
SpongeSqueeze == 7
SpongeChallengeValue(sp) == sp.acc % (2 ^ ChalBits)
SpongeAfterChallenge(sp) == SpongeRun(sp, <<SpongeSqueeze>>)

\* digest(self): consumes the sponge.
SpongeDigest(sp) == sp.acc % P

\* absorb_commitment: the points of the commitment, chunk by chunk.
absorb_commitment(sp, comm) ==
    SpongeAbsorb(sp, Flatten(comm.unshifted) \o Flatten(comm.shifted))

\* ScalarChallenge::to_field: the endomorphism-based decomposition of the
\* challenge's bits, two at a time from the top.
RECURSIVE ToFieldLoop(_, _, _, _)
ToFieldLoop(r, i, a, b) ==
    IF i < 0 THEN Fadd(Fmul(a, endo_r), b)
    ELSE LET a2 == Fadd(a, a)
             b2 == Fadd(b, b)
             r_2i == (r \div (2 ^ (2 * i))) % 2
             r_2i1 == (r \div (2 ^ (2 * i + 1))) % 2
             s == IF r_2i = 0 THEN Fneg(1) ELSE 1
         IN  IF r_2i1 = 0
             THEN ToFieldLoop(r, i - 1, a2, Fadd(b2, s))
             ELSE ToFieldLoop(r, i - 1, Fadd(a2, s), b2)

to_field(c) == ToFieldLoop(c, (ChalBits \div 2) - 1, 2, 2)

(***************************************************************************)
(* verifier_index                                                          *)
(***************************************************************************)
\* The feature flags of the hard-coded index: everything optional is off.
feature_flags ==
    [range_check0 |-> FALSE,
     range_check1 |-> FALSE,
     lookup_features |->
        [patterns |-> [xor |-> FALSE, lookup |-> FALSE, range_check |-> FALSE,
                       foreign_field_mul |-> FALSE],
         joint_lookup_used |-> FALSE,
         uses_runtime_tables |-> FALSE],
     foreign_field_add |-> FALSE,
     foreign_field_mul |-> FALSE,
     xor |-> FALSE,
     rot |-> FALSE]

\* sigma_comm[i]: srs.g[1].mul(shifts.shifts[i]).
sigma_comm_of(i) == PolyComm(<<GMul(SrsG(1), Shift(i))>>)

\* Coefficient commitments whose zero polynomials are left unblinded.
coefficients_comm_unblinded(i) == make_comm(IF i = 0 THEN SrsG(0) ELSE GZero)

\* coefficients_comm[i]: srs.g[0] for i = 0, srs.h otherwise.
coefficients_comm_of(i) == make_comm(IF i = 0 THEN SrsG(0) ELSE SrsH)

\* The commitment of a disabled gate's selector: srs.h.
disabled_selector_comm == make_comm(SrsH)

\* An index that carries a commitment for an optional gate.
optional_comm_present == <<make_comm(SrsH)>>

\* The commitment of an optional gate's selector: absent.
optional_comm == <<>>

verifier_index(num_public_inputs, num_prev_challenges) ==
    [domain |-> N,
     max_poly_size |-> SrsSize,
     public |-> num_public_inputs,
     prev_challenges |-> num_prev_challenges,
     sigma_comm |-> [i \in 1 .. PERMUTS |-> sigma_comm_of(i - 1)],
     coefficients_comm |-> [i \in 1 .. COLUMNS |-> coefficients_comm_of(i - 1)],
     generic_comm |-> make_comm(SrsG(0)),
     psm_comm |-> disabled_selector_comm,
     complete_add_comm |-> disabled_selector_comm,
     mul_comm |-> disabled_selector_comm,
     emul_comm |-> disabled_selector_comm,
     endomul_scalar_comm |-> disabled_selector_comm,
     range_check0_comm |-> optional_comm,
     range_check1_comm |-> optional_comm,
     foreign_field_add_comm |-> optional_comm,
     foreign_field_mul_comm |-> optional_comm,
     xor_comm |-> optional_comm,
     rot_comm |-> optional_comm,
     shift |-> [i \in 1 .. PERMUTS |-> Shift(i - 1)],
     endo |-> endo_r,
     lookup_index |-> <<>>,
     linearization |-> feature_flags]

\* VerifierIndex::digest: a sponge of its own absorbs every commitment of the
\* index, the optional ones when present.
index_digest(index) ==
    LET always == index.sigma_comm \o index.coefficients_comm
                  \o <<index.generic_comm, index.psm_comm,
                       index.complete_add_comm, index.mul_comm,
                       index.emul_comm, index.endomul_scalar_comm>>
        optional == index.range_check0_comm \o index.range_check1_comm
                    \o index.foreign_field_add_comm
                    \o index.foreign_field_mul_comm
                    \o index.xor_comm \o index.rot_comm
        comms == always \o optional
    IN  SpongeDigest(
            SpongeAbsorb(FqSpongeNew,
                         Flatten([i \in 1 .. Len(comms) |->
                                     Flatten(comms[i].unshifted)])))

(***************************************************************************)
(* Recursion challenges                                                    *)
(***************************************************************************)
\* b_poly_coefficients: coefficient i is the product of chals[rounds - j]
\* over the bits j set in i.
RECURSIVE BPolyCoeff(_, _, _)
BPolyCoeff(chals, i, j) ==
    IF j >= Len(chals) THEN 1
    ELSE Fmul(IF (i \div (2 ^ j)) % 2 = 1 THEN chals[Len(chals) - j] ELSE 1,
              BPolyCoeff(chals, i, j + 1))

b_poly_coefficients(chals) ==
    [i \in 1 .. 2 ^ Len(chals) |-> BPolyCoeff(chals, i - 1, 0)]

\* A prior proof's challenges with the commitment they were derived from.
RecursionChallenge(chals) ==
    [chals |-> chals,
     comm |-> PolyComm(<<Commit(from_coefficients_vec(b_poly_coefficients(chals)), 0)>>)]

\* The recursion challenges a caller passes in.
RecursionChoices == {RecursionChallenge(<<1, 2>>), RecursionChallenge(<<3, 1>>)}

(***************************************************************************)
(* Evaluations                                                             *)
(***************************************************************************)
PointEvaluations(at_zeta, at_zeta_omega) ==
    [zeta |-> at_zeta, zeta_omega |-> at_zeta_omega]

\* A constant's evaluations with the one at zeta * omega left at 0.
constant_evals_zero_next(x) == PointEvaluations(<<x>>, <<0>>)

constant_evals(x) == PointEvaluations(<<x>>, <<x>>)

\* to_chunked_polynomial(max_poly_size).evaluate_chunks(x): the polynomial is
\* cut into chunks of max_poly_size coefficients (at least one chunk), each
\* evaluated at x.
num_chunks(p) ==
    IF p = <<>> THEN 1 ELSE (Len(p) + SrsSize - 1) \div SrsSize
evaluate_chunks(p, x) ==
    [c \in 1 .. num_chunks(p) |->
        PolyEval(SubSeq(p, (c - 1) * SrsSize + 1,
                        IF c * SrsSize < Len(p) THEN c * SrsSize ELSE Len(p)),
                 x)]

\* The evaluation of an optional gate's selector or of a lookup polynomial.
optional_eval == <<>>

\* The evaluation record of lines 303-365.
proof_evaluations(zeta_, zeta_omega_, shift, witness_poly_) ==
    [s |-> [i \in 1 .. PERMUTS - 1 |->
               PointEvaluations(<<Fmul(zeta_, shift[i])>>,
                                <<Fmul(zeta_omega_, shift[i])>>)],
     coefficients |-> [i \in 1 .. COLUMNS |->
               IF i = 1 THEN constant_evals(1) ELSE constant_evals(0)],
     w |-> [i \in 1 .. COLUMNS |->
               IF i = 1
               THEN PointEvaluations(evaluate_chunks(witness_poly_, zeta_),
                                     evaluate_chunks(witness_poly_, zeta_omega_))
               ELSE constant_evals(0)],
     z |-> constant_evals(1),
     generic_selector |-> constant_evals(1),
     poseidon_selector |-> constant_evals(0),
     complete_add_selector |-> constant_evals(0),
     mul_selector |-> constant_evals(0),
     emul_selector |-> constant_evals(0),
     endomul_scalar_selector |-> constant_evals(0),
     range_check0_selector |-> optional_eval,
     range_check1_selector |-> optional_eval,
     foreign_field_add_selector |-> optional_eval,
     foreign_field_mul_selector |-> optional_eval,
     xor_selector |-> optional_eval,
     rot_selector |-> optional_eval,
     runtime_lookup_table_selector |-> optional_eval,
     xor_lookup_selector |-> optional_eval,
     lookup_gate_lookup_selector |-> optional_eval,
     range_check_lookup_selector |-> optional_eval,
     foreign_field_mul_lookup_selector |-> optional_eval,
     lookup_aggregation |-> optional_eval,
     lookup_table |-> optional_eval,
     lookup_sorted |-> [i \in 1 .. 5 |-> optional_eval],
     runtime_lookup_table |-> optional_eval]

\* PointEvaluations::combine: sum_j chunk[j] * pt^j per point.
combine_point(pe, pt) ==
    PointEvaluations(
        SeqSum([j \in 1 .. Len(pe.zeta) |-> Fmul(pe.zeta[j], Fpow(pt.zeta, j - 1))]),
        SeqSum([j \in 1 .. Len(pe.zeta_omega) |->
                   Fmul(pe.zeta_omega[j], Fpow(pt.zeta_omega, j - 1))]))

\* ProofEvaluations::combine, on the fields the prover reads afterwards.
combine(e, pt) ==
    [s |-> [i \in 1 .. Len(e.s) |-> combine_point(e.s[i], pt)],
     w |-> [i \in 1 .. Len(e.w) |-> combine_point(e.w[i], pt)],
     coefficients |-> [i \in 1 .. Len(e.coefficients) |->
                          combine_point(e.coefficients[i], pt)],
     z |-> combine_point(e.z, pt),
     generic_selector |-> combine_point(e.generic_selector, pt)]

\* permutation::eval_zk_polynomial(domain, x).
eval_zk_polynomial(x) ==
    LET w3 == Fpow(omega, N - 3)
        w2 == Fmul(omega, w3)
        w1 == Fmul(omega, w2)
    IN  Fmul(Fmul(Fsub(x, w1), Fsub(x, w2)), Fsub(x, w3))

\* all_alphas.get_alphas(ArgumentType::Permutation, permutation::CONSTRAINTS):
\* the three powers of alpha after the 21 the gates use.
perm_alphas(alpha_) == [i \in 1 .. 3 |-> Fpow(alpha_, 21 + i - 1)]

RECURSIVE FoldMul(_, _)
FoldMul(init, s) == IF s = <<>> THEN init ELSE FoldMul(Fmul(init, Head(s)), Tail(s))

\* ConstraintSystem::perm_scalars: the closed form
\* -(z(zeta omega) beta alpha0 zkp prod_{i < PERMUTS-1} (gamma + beta s_i + w_i)).
perm_scalars(e, beta_, gamma_, alphas, zkp_zeta) ==
    LET init == Fmul(Fmul(Fmul(e.z.zeta_omega, beta_), alphas[1]), zkp_zeta)
        terms == [i \in 1 .. Len(e.s) |->
                     Fadd(Fadd(gamma_, Fmul(beta_, e.s[i].zeta)), e.w[i].zeta)]
    IN  Fneg(FoldMul(init, terms))

\* FrSponge::absorb_evaluations: z, the six selectors, w, coefficients, s,
\* then the optional evaluations that are present; each at zeta, then at
\* zeta * omega.
evaluation_points(e) ==
    <<e.z, e.generic_selector, e.poseidon_selector, e.complete_add_selector,
      e.mul_selector, e.emul_selector, e.endomul_scalar_selector>>
    \o e.w \o e.coefficients \o e.s
    \o e.range_check0_selector \o e.range_check1_selector
    \o e.foreign_field_add_selector \o e.foreign_field_mul_selector
    \o e.xor_selector \o e.rot_selector
    \o e.lookup_aggregation \o e.lookup_table
    \o Flatten(e.lookup_sorted) \o e.runtime_lookup_table
    \o e.runtime_lookup_table_selector \o e.xor_lookup_selector
    \o e.lookup_gate_lookup_selector \o e.range_check_lookup_selector
    \o e.foreign_field_mul_lookup_selector

evaluation_data(e) ==
    LET pts == evaluation_points(e)
    IN  Flatten([i \in 1 .. Len(pts) |-> pts[i].zeta \o pts[i].zeta_omega])

absorb_evaluations(sp, e) == SpongeAbsorb(sp, evaluation_data(e))

(***************************************************************************)
(* The state.                                                              *)
(***************************************************************************)
VARIABLES
    pc,                 \* the stage create_recursive_public_input_only is at
    index,              \* Option: the prover's verifier index
    public_inputs,      \* the caller's vector, a copy of which is the witness
    witness,            \* the witness argument, padded in place
    prev_challenges,    \* the recursion challenges argument
    err,                \* the error returned, "" when none
    fq_sponge,          \* Option: the base-field sponge, None once digested
    fr_sponge,          \* Option: the scalar-field sponge
    transcript,         \* every sponge operation so far, in order
    witness_poly,
    public_poly,
    public_comm,        \* Option: the commitment absorbed for the public input
    w_comm,
    z_comm,             \* Option
    t_comm,             \* Option: the blinded quotient commitment
    beta, gamma, alpha, zeta, v, u,
    chunked_evals,      \* Option
    ft,
    blinding_ft,        \* Option
    ft_eval1,
    fq_sponge_before_evaluations,   \* Option
    polynomials_to_open,
    draws,              \* every randomness draw: its source and its value
    proof,              \* Option: the ProverProof returned
    verifier,           \* the verifier's index and its verdicts
    runs,               \* the earlier runs on the same arguments
    lookup_table,       \* Option: the LookupTable whose entries were asked for
    domain_size,        \* the size of the domain handed to entries
    overflow_checks,    \* whether the build panics on integer overflow
    entries_result,     \* Option: what LookupTable::entries came to
    underflowed,        \* the rows whose u64 subtraction went below zero
    test_pc,            \* where test_completeness is
    limbs,              \* Option: the values one row looks up, per table
    witness_env,        \* Option: the witness environment of the test
    rangecheck_tables,  \* per table: its request columns, then its own column
    rangecheck_multiplicities,  \* per table: Option, the multiplicities
    mvlookups           \* the lookup witnesses handed to the prover

inputs == <<index, public_inputs, witness, prev_challenges>>
sponges == <<fq_sponge, fr_sponge, transcript>>
commitments == <<witness_poly, public_poly, public_comm, w_comm, z_comm, t_comm>>
challenges == <<beta, gamma, alpha, zeta, v, u>>
evaluations == <<chunked_evals, ft, blinding_ft, ft_eval1>>
opening == <<fq_sponge_before_evaluations, polynomials_to_open, draws, proof>>
table_entries == <<lookup_table, domain_size, overflow_checks, entries_result,
                   underflowed>>
completeness_test == <<test_pc, limbs, witness_env, rangecheck_tables,
                       rangecheck_multiplicities, mvlookups>>
serialization == <<table_entries, completeness_test>>
vars == <<pc, err, inputs, sponges, commitments, challenges, evaluations,
          opening, verifier, runs, serialization>>

\* One entry of the transcript: the sponge, "absorb", "challenge" or
\* "digest", what is absorbed or squeezed, and the field elements absorbed.
Op(sponge, op, item, data) ==
    [sponge |-> sponge, op |-> op, item |-> item, data |-> data]
Absorb(sponge, item, data) == Op(sponge, "absorb", item, data)
Challenge(sponge, item) == Op(sponge, "challenge", item, <<>>)
Digest(sponge) == Op(sponge, "digest", "digest", <<>>)

\* absorb_commitment as a transcript entry.
AbsorbComm(sponge, item, comm) ==
    Absorb(sponge, item, Flatten(comm.unshifted) \o Flatten(comm.shifted))

\* The state of sponge `name` after the operations `ops`, from state sp.
RunOps(name, sp, ops) ==
    SpongeRun(sp,
        Flatten([k \in 1 .. Len(ops) |->
                    IF ops[k].sponge # name THEN <<>>
                    ELSE IF ops[k].op = "absorb"
                    THEN [i \in 1 .. Len(ops[k].data) |-> ops[k].data[i] + 1]
                    ELSE IF ops[k].op = "challenge" THEN <<SpongeSqueeze>>
                    ELSE <<>>]))

\* The position in ops of the entry for `item`.
OpIndex(ops, item) == CHOOSE k \in 1 .. Len(ops) : ops[k].item = item

\* The challenge `item` squeezed from sponge `name` in the course of ops.
Squeezed(name, sp, ops, item) ==
    SpongeChallengeValue(RunOps(name, sp, SubSeq(ops, 1, OpIndex(ops, item) - 1)))

\* The values the OS entropy source may return to one draw.
RngValues == {0, 1}

Stages == <<"PadWitness", "CommitWitness", "DeriveBetaGamma",
            "CommitPermutation", "DeriveAlpha", "CommitQuotient", "DeriveZeta",
            "Evaluate", "Linearize", "DeriveVU", "Open", "Done">>

NoVerifier == [index |-> <<>>, verdicts |-> <<>>]

\* The locals of a call, before its first statement.
Fresh ==
    /\ err = ""
    /\ fq_sponge = <<>> /\ fr_sponge = <<>> /\ transcript = <<>>
    /\ witness_poly = <<>> /\ public_poly = <<>> /\ public_comm = <<>>
    /\ w_comm = <<>> /\ z_comm = <<>> /\ t_comm = <<>>
    /\ beta = 0 /\ gamma = 0 /\ alpha = 0 /\ zeta = 0 /\ v = 0 /\ u = 0
    /\ chunked_evals = <<>> /\ ft = <<>> /\ blinding_ft = <<>> /\ ft_eval1 = 0
    /\ fq_sponge_before_evaluations = <<>> /\ polynomials_to_open = <<>>
    /\ draws = <<>> /\ proof = <<>>

\* The locals are those of a call that has not started.
Reset ==
    /\ err' = ""
    /\ fq_sponge' = <<>> /\ fr_sponge' = <<>> /\ transcript' = <<>>
    /\ witness_poly' = <<>> /\ public_poly' = <<>> /\ public_comm' = <<>>
    /\ w_comm' = <<>> /\ z_comm' = <<>> /\ t_comm' = <<>>
    /\ beta' = 0 /\ gamma' = 0 /\ alpha' = 0 /\ zeta' = 0 /\ v' = 0 /\ u' = 0
    /\ chunked_evals' = <<>> /\ ft' = <<>> /\ blinding_ft' = <<>>
    /\ ft_eval1' = 0
    /\ fq_sponge_before_evaluations' = <<>> /\ polynomials_to_open' = <<>>
    /\ draws' = <<>> /\ proof' = <<>>

\* LookupTable::entries has not been called.
NoEntries ==
    /\ lookup_table = <<>> /\ domain_size = 0 /\ overflow_checks = FALSE
    /\ entries_result = <<>> /\ underflowed = {}

\* test_completeness has not started.
TestNotStarted ==
    /\ test_pc = "Idle" /\ limbs = <<>> /\ witness_env = <<>>
    /\ rangecheck_tables = <<>> /\ rangecheck_multiplicities = <<>>
    /\ mvlookups = <<>>

Init ==
    /\ pc = "Idle"
    /\ NoEntries /\ TestNotStarted
    /\ index = <<>> /\ public_inputs = <<>> /\ witness = <<>>
    /\ prev_challenges = <<>>
    /\ Fresh
    /\ verifier = NoVerifier
    /\ runs = <<>>

(***************************************************************************)
(* verifier_index is called; create_recursive_public_input_only is called. *)
(***************************************************************************)
BuildIndex ==
    /\ pc = "Idle"
    /\ \E num_public_inputs \in 0 .. N + 1, num_prev_challenges \in 0 .. MaxPrev :
          index' = <<verifier_index(num_public_inputs, num_prev_challenges)>>
    /\ pc' = "Ready"
    /\ UNCHANGED <<public_inputs, witness, prev_challenges, err, sponges,
                   commitments, challenges, evaluations, opening, verifier, runs,
                   serialization>>

\* The caller has built the index for the number of public inputs and of
\* recursion challenges it proves with, as test_public_input_only_prover
\* does; the witness is the vector of public inputs, one element too long
\* for the domain at most.
Witnesses == [1 .. index[1].public -> 0 .. MaxVal]

create_recursive_public_input_only ==
    /\ pc = "Ready"
    /\ \E w \in Witnesses,
          prev \in [1 .. index[1].prev_challenges -> RecursionChoices] :
          /\ public_inputs' = w
          /\ witness' = w
          /\ prev_challenges' = prev
    /\ pc' = "PadWitness"
    /\ UNCHANGED <<index, err, sponges, commitments, challenges, evaluations,
                   opening, verifier, runs,
                   serialization>>

\* create_public_input_only: the same with Vec::new() for the recursion
\* challenges.
create_public_input_only ==
    /\ pc = "Ready"
    /\ index[1].prev_challenges = 0
    /\ \E w \in Witnesses : public_inputs' = w /\ witness' = w
    /\ prev_challenges' = <<>>
    /\ pc' = "PadWitness"
    /\ UNCHANGED <<index, err, sponges, commitments, challenges, evaluations,
                   opening, verifier, runs,
                   serialization>>

(***************************************************************************)
(* PadWitness (lines 187-194)                                              *)
(***************************************************************************)
\* A subtraction that also fails on a zero difference.
checked_sub_strict(a, b) == IF a > b THEN <<a - b>> ELSE <<>>

\* d1_size.checked_sub(length_witness)
checked_sub(a, b) == IF a >= b THEN <<a - b>> ELSE <<>>

\* A padding step that writes the padded length into the index.
PadWitness_into_index ==
    /\ pc = "PadWitness"
    /\ LET length_padding == checked_sub(index[1].domain, Len(witness))
       IN  IF length_padding = <<>>
           THEN /\ err' = "NoRoomForZkInWitness"
                /\ pc' = "Failed"
                /\ UNCHANGED <<witness, index>>
           ELSE /\ witness' = witness \o Repeat(0, length_padding[1])
                /\ index' = <<[index[1] EXCEPT !.public = Len(witness')]>>
                /\ pc' = "CommitWitness"
                /\ UNCHANGED err
    /\ UNCHANGED <<public_inputs, prev_challenges, sponges, commitments,
                   challenges, evaluations, opening, verifier, runs,
                   serialization>>

PadWitness ==
    /\ pc = "PadWitness"
    /\ LET length_padding == checked_sub(index[1].domain, Len(witness))
       IN  IF length_padding = <<>>
           THEN /\ err' = "NoRoomForZkInWitness"
                /\ pc' = "Failed"
                /\ UNCHANGED witness
           ELSE /\ witness' = witness \o Repeat(0, length_padding[1])
                /\ pc' = "CommitWitness"
                /\ UNCHANGED err
    /\ UNCHANGED <<index, public_inputs, prev_challenges, sponges, commitments,
                   challenges, evaluations, opening, verifier, runs,
                   serialization>>

(***************************************************************************)
(* CommitWitness (lines 196-251)                                           *)
(***************************************************************************)
\* A public commitment that is blinded but not negated: srs.h + x.
public_comm_not_negated(unblinded_witness_comm) ==
    [unshifted |-> [k \in 1 .. Len(unblinded_witness_comm.unshifted) |->
                       GAdd(SrsH, unblinded_witness_comm.unshifted[k])],
     shifted |-> unblinded_witness_comm.shifted]

\* The commitment absorbed for the negated public polynomial: srs.h + x.neg().
public_comm_of(unblinded_witness_comm) ==
    [unshifted |-> [k \in 1 .. Len(unblinded_witness_comm.unshifted) |->
                       GAdd(SrsH, GNeg(unblinded_witness_comm.unshifted[k]))],
     shifted |-> unblinded_witness_comm.shifted]

\* Witness commitments whose column 0 is left unblinded.
w_comm_unblinded(unblinded_witness_comm) ==
    <<unblinded_witness_comm>> \o Repeat(PolyComm(<<SrsH>>), COLUMNS - 1)

\* w_comm: column 0 is x + srs.h, every other column is srs.h.
w_comm_of(unblinded_witness_comm) ==
    <<[unshifted |-> [k \in 1 .. Len(unblinded_witness_comm.unshifted) |->
                         GAdd(unblinded_witness_comm.unshifted[k], SrsH)],
       shifted |-> unblinded_witness_comm.shifted]>>
    \o Repeat(PolyComm(<<SrsH>>), COLUMNS - 1)

\* The sponge operations of lines 200-251.
commit_witness_ops(verifier_index_digest, prev, public_comm_, w_comm_) ==
    <<Absorb("fq", "verifier_index_digest", <<verifier_index_digest>>)>>
    \o [i \in 1 .. Len(prev) |-> AbsorbComm("fq", "prev_challenges.comm", prev[i].comm)]
    \o <<AbsorbComm("fq", "public_comm", public_comm_)>>
    \o [i \in 1 .. Len(w_comm_) |-> AbsorbComm("fq", "w_comm", w_comm_[i])]

CommitWitness ==
    /\ pc = "CommitWitness"
    /\ LET unblinded_witness_comm == commit_evaluations_non_hiding(witness)
           pcomm == public_comm_of(unblinded_witness_comm)
           wcomm == w_comm_of(unblinded_witness_comm)
           ops == commit_witness_ops(index_digest(index[1]), prev_challenges,
                                     pcomm, wcomm)
       IN  /\ witness_poly' = Interpolate(witness)
           /\ public_poly' = PolyNeg(Interpolate(witness))
           /\ public_comm' = <<pcomm>>
           /\ w_comm' = wcomm
           /\ fq_sponge' = <<RunOps("fq", FqSpongeNew, ops)>>
           /\ transcript' = transcript \o ops
    /\ pc' = "DeriveBetaGamma"
    /\ UNCHANGED <<inputs, err, fr_sponge, z_comm, t_comm, challenges,
                   evaluations, opening, verifier, runs,
                   serialization>>

(***************************************************************************)
(* DeriveBetaGamma (lines 253-254)                                         *)
(***************************************************************************)
beta_gamma_ops == <<Challenge("fq", "beta"), Challenge("fq", "gamma")>>

DeriveBetaGamma ==
    /\ pc = "DeriveBetaGamma"
    /\ beta' = Squeezed("fq", fq_sponge[1], beta_gamma_ops, "beta")
    /\ gamma' = Squeezed("fq", fq_sponge[1], beta_gamma_ops, "gamma")
    /\ fq_sponge' = <<RunOps("fq", fq_sponge[1], beta_gamma_ops)>>
    /\ transcript' = transcript \o beta_gamma_ops
    /\ pc' = "CommitPermutation"
    /\ UNCHANGED <<inputs, err, fr_sponge, commitments, alpha, zeta, v, u,
                   evaluations, opening, verifier, runs,
                   serialization>>

(***************************************************************************)
(* CommitPermutation (lines 256-266)                                       *)
(***************************************************************************)
\* z_comm: srs.g[0], the constant polynomial 1 with no blinding.
z_comm_of == PolyComm(<<SrsG(0)>>)

CommitPermutation ==
    /\ pc = "CommitPermutation"
    /\ LET ops == <<AbsorbComm("fq", "z_comm", z_comm_of)>>
       IN  /\ z_comm' = <<z_comm_of>>
           /\ fq_sponge' = <<RunOps("fq", fq_sponge[1], ops)>>
           /\ transcript' = transcript \o ops
    /\ pc' = "DeriveAlpha"
    /\ UNCHANGED <<inputs, err, fr_sponge, witness_poly, public_poly,
                   public_comm, w_comm, t_comm, challenges, evaluations,
                   opening, verifier, runs,
                   serialization>>

(***************************************************************************)
(* DeriveAlpha (line 268)                                                  *)
(***************************************************************************)
DeriveAlpha ==
    /\ pc = "DeriveAlpha"
    /\ LET ops == <<Challenge("fq", "alpha")>>
       IN  /\ alpha' = to_field(Squeezed("fq", fq_sponge[1], ops, "alpha"))
           /\ fq_sponge' = <<RunOps("fq", fq_sponge[1], ops)>>
           /\ transcript' = transcript \o ops
    /\ pc' = "CommitQuotient"
    /\ UNCHANGED <<inputs, err, fr_sponge, commitments, beta, gamma, zeta, v, u,
                   evaluations, opening, verifier, runs,
                   serialization>>

(***************************************************************************)
(* CommitQuotient (lines 270-286)                                          *)
(***************************************************************************)
\* t_comm: the zero polynomial with blinding factor 1, in 7 chunks.
t_comm_of ==
    [commitment |-> PolyComm(Repeat(SrsH, 7)),
     blinders |-> PolyComm(Repeat(1, 7))]

CommitQuotient ==
    /\ pc = "CommitQuotient"
    /\ LET ops == <<AbsorbComm("fq", "t_comm", t_comm_of.commitment)>>
       IN  /\ t_comm' = <<t_comm_of>>
           /\ fq_sponge' = <<RunOps("fq", fq_sponge[1], ops)>>
           /\ transcript' = transcript \o ops
    /\ pc' = "DeriveZeta"
    /\ UNCHANGED <<inputs, err, fr_sponge, witness_poly, public_poly,
                   public_comm, w_comm, z_comm, challenges, evaluations,
                   opening, verifier, runs,
                   serialization>>

(***************************************************************************)
(* DeriveZeta (lines 288-292)                                              *)
(***************************************************************************)
DeriveZeta ==
    /\ pc = "DeriveZeta"
    /\ LET ops == <<Challenge("fq", "zeta")>>
       IN  /\ zeta' = to_field(Squeezed("fq", fq_sponge[1], ops, "zeta"))
           /\ fq_sponge' = <<RunOps("fq", fq_sponge[1], ops)>>
           /\ transcript' = transcript \o ops
    /\ pc' = "Evaluate"
    /\ UNCHANGED <<inputs, err, fr_sponge, commitments, beta, gamma, alpha, v, u,
                   evaluations, opening, verifier, runs,
                   serialization>>

(***************************************************************************)
(* Evaluate (lines 294-379)                                                *)
(***************************************************************************)
zeta_omega == Fmul(zeta, omega)

\* The powers of the evaluation points that recombine the chunks.
powers_of_eval_points_for_chunks ==
    PointEvaluations(Fpow(zeta, SrsSize), Fpow(zeta_omega, SrsSize))

\* evals: the chunked evaluations combined.
evals == combine(chunked_evals[1], powers_of_eval_points_for_chunks)

Evaluate ==
    /\ pc = "Evaluate"
    /\ chunked_evals' =
          <<proof_evaluations(zeta, zeta_omega, index[1].shift, witness_poly)>>
    /\ pc' = "Linearize"
    /\ UNCHANGED <<inputs, err, sponges, commitments, challenges, ft,
                   blinding_ft, ft_eval1, opening, verifier, runs,
                   serialization>>

(***************************************************************************)
(* Linearize (lines 381-421)                                               *)
(***************************************************************************)
\* ft: x * (scalar * shift[PERMUTS - 1]).
\* A variant that scales by the first shift instead of the last.
ft_of_first_shift(e, beta_, gamma_, alpha_, zeta_, shift) ==
    LET scalar == perm_scalars(e, beta_, gamma_, perm_alphas(alpha_),
                               eval_zk_polynomial(zeta_))
    IN  from_coefficients_vec(<<0, Fmul(scalar, shift[1])>>)

ft_of(e, beta_, gamma_, alpha_, zeta_, shift) ==
    LET scalar == perm_scalars(e, beta_, gamma_, perm_alphas(alpha_),
                               eval_zk_polynomial(zeta_))
    IN  from_coefficients_vec(<<0, Fmul(scalar, shift[PERMUTS])>>)

\* blinding_ft: blinding_f - (zeta^n - 1) * blinding_t, with blinding_f = 0.
blinding_ft_of(t_blinders, zeta_) ==
    LET blinding_t == chunk_blinding(t_blinders, Fpow(zeta_, SrsSize))
        blinding_f == 0
    IN  PolyComm(<<Fsub(blinding_f, Fmul(Fsub(Fpow(zeta_, N), 1), blinding_t))>>)

Linearize ==
    /\ pc = "Linearize"
    /\ LET f == ft_of(evals, beta, gamma, alpha, zeta, index[1].shift)
       IN  /\ ft' = f
           /\ ft_eval1' = PolyEval(f, zeta_omega)
    /\ blinding_ft' = <<blinding_ft_of(t_comm[1].blinders, zeta)>>
    /\ pc' = "DeriveVU"
    /\ UNCHANGED <<inputs, err, sponges, commitments, challenges, chunked_evals,
                   opening, verifier, runs,
                   serialization>>

(***************************************************************************)
(* DeriveVU (lines 423-454)                                                *)
(***************************************************************************)
\* prev_challenge_digest: a scalar sponge of its own absorbs the challenges.
prev_challenge_ops(prev) ==
    [i \in 1 .. Len(prev) |-> Absorb("fr_prev", "chals", prev[i].chals)]
    \o <<Digest("fr_prev")>>

prev_challenge_digest(prev) ==
    SpongeDigest(RunOps("fr_prev", FrSpongeNew, prev_challenge_ops(prev)))

\* The scalar-sponge operations with the ft evaluation absorbed ahead of the
\* recursion-challenge digest.
scalar_sponge_ops_ft_first(fq_digest, prev, ft_eval1_, e, ce) ==
    <<Absorb("fr", "fq_sponge.digest", <<fq_digest>>),
      Absorb("fr", "ft_eval1", <<ft_eval1_>>)>>
    \o prev_challenge_ops(prev)
    \o <<Absorb("fr", "prev_challenge_digest", <<prev_challenge_digest(prev)>>),
         Absorb("fr", "public_input_eval_zeta", <<Fneg(e.w[1].zeta)>>),
         Absorb("fr", "public_input_eval_zeta_omega", <<Fneg(e.w[1].zeta_omega)>>),
         Absorb("fr", "chunked_evals", evaluation_data(ce)),
         Challenge("fr", "v"),
         Challenge("fr", "u")>>

\* The operations on the scalar sponge, lines 425-454.
scalar_sponge_ops(fq_digest, prev, ft_eval1_, e, ce) ==
    <<Absorb("fr", "fq_sponge.digest", <<fq_digest>>)>>
    \o prev_challenge_ops(prev)
    \o <<Absorb("fr", "prev_challenge_digest", <<prev_challenge_digest(prev)>>),
         Absorb("fr", "ft_eval1", <<ft_eval1_>>),
         Absorb("fr", "public_input_eval_zeta", <<Fneg(e.w[1].zeta)>>),
         Absorb("fr", "public_input_eval_zeta_omega", <<Fneg(e.w[1].zeta_omega)>>),
         Absorb("fr", "chunked_evals", evaluation_data(ce)),
         Challenge("fr", "v"),
         Challenge("fr", "u")>>

\* A variant that captures the base-field sponge after it has absorbed an
\* evaluation.
DeriveVU_late_capture ==
    /\ pc = "DeriveVU"
    /\ LET ops == scalar_sponge_ops(SpongeDigest(fq_sponge[1]), prev_challenges,
                                    ft_eval1, evals, chunked_evals[1])
       IN  /\ fq_sponge_before_evaluations'
              = <<SpongeAbsorb(fq_sponge[1], <<ft_eval1>>)>>
           /\ fq_sponge' = <<>>
           /\ fr_sponge' = <<RunOps("fr", FrSpongeNew, ops)>>
           /\ v' = to_field(Squeezed("fr", FrSpongeNew, ops, "v"))
           /\ u' = to_field(Squeezed("fr", FrSpongeNew, ops, "u"))
           /\ transcript' = transcript \o <<Digest("fq")>> \o ops
    /\ pc' = "Open"
    /\ UNCHANGED <<inputs, err, commitments, beta, gamma, alpha, zeta,
                   evaluations, polynomials_to_open, draws, proof, verifier,
                   runs,
                   serialization>>

DeriveVU ==
    /\ pc = "DeriveVU"
    /\ LET ops == scalar_sponge_ops(SpongeDigest(fq_sponge[1]), prev_challenges,
                                    ft_eval1, evals, chunked_evals[1])
       IN  /\ fq_sponge_before_evaluations' = fq_sponge
           /\ fq_sponge' = <<>>
           /\ fr_sponge' = <<RunOps("fr", FrSpongeNew, ops)>>
           /\ v' = to_field(Squeezed("fr", FrSpongeNew, ops, "v"))
           /\ u' = to_field(Squeezed("fr", FrSpongeNew, ops, "u"))
           /\ transcript' = transcript \o <<Digest("fq")>> \o ops
    /\ pc' = "Open"
    /\ UNCHANGED <<inputs, err, commitments, beta, gamma, alpha, zeta,
                   evaluations, polynomials_to_open, draws, proof, verifier,
                   runs,
                   serialization>>

(***************************************************************************)
(* Open (lines 456-539) and the proof returned (lines 541-553)             *)
(***************************************************************************)
non_hiding(d1_size) == PolyComm(Repeat(0, d1_size))
\* A hiding helper that blinds with 0.
fixed_hiding_none(d1_size) == PolyComm(Repeat(0, d1_size))

\* fixed_hiding: the blinding factor 1 on every chunk.
fixed_hiding(d1_size) == PolyComm(Repeat(1, d1_size))

\* One entry of polynomials_to_open: (polynomial, None, blinding).
ToOpen(poly, blinding) == [poly |-> poly, bound |-> <<>>, blinding |-> blinding]

\* shifted_polys[i]: x * shift[i].
shifted_poly(shift) == from_coefficients_vec(<<0, shift>>)

\* The list with the ft polynomial ahead of the public polynomial.
polynomials_to_open_ft_first(prev, public_poly_, ft_, blinding_ft_, witness_poly_, shift) ==
    [i \in 1 .. Len(prev) |->
        ToOpen(from_coefficients_vec(b_poly_coefficients(prev[i].chals)),
               non_hiding(Len(prev[i].comm.unshifted)))]
    \o <<ToOpen(ft_, blinding_ft_),
         ToOpen(public_poly_, fixed_hiding(1)),
         ToOpen(one_polynomial, non_hiding(1)),
         ToOpen(one_polynomial, non_hiding(1))>>
    \o Repeat(ToOpen(zero_polynomial, fixed_hiding(1)), 5)
    \o <<ToOpen(witness_poly_, fixed_hiding(1))>>
    \o Repeat(ToOpen(zero_polynomial, fixed_hiding(1)), COLUMNS - 1)
    \o <<ToOpen(one_polynomial, non_hiding(1))>>
    \o Repeat(ToOpen(zero_polynomial, fixed_hiding(1)), COLUMNS - 1)
    \o [i \in 1 .. PERMUTS - 1 |-> ToOpen(shifted_poly(shift[i]), non_hiding(1))]

\* The list of lines 477-526.
polynomials_to_open_of(prev, public_poly_, ft_, blinding_ft_, witness_poly_, shift) ==
    [i \in 1 .. Len(prev) |->
        ToOpen(from_coefficients_vec(b_poly_coefficients(prev[i].chals)),
               non_hiding(Len(prev[i].comm.unshifted)))]
    \o <<ToOpen(public_poly_, fixed_hiding(1)),
         ToOpen(ft_, blinding_ft_),
         ToOpen(one_polynomial, non_hiding(1)),
         ToOpen(one_polynomial, non_hiding(1))>>
    \o Repeat(ToOpen(zero_polynomial, fixed_hiding(1)), 5)
    \o <<ToOpen(witness_poly_, fixed_hiding(1))>>
    \o Repeat(ToOpen(zero_polynomial, fixed_hiding(1)), COLUMNS - 1)
    \o <<ToOpen(one_polynomial, non_hiding(1))>>
    \o Repeat(ToOpen(zero_polynomial, fixed_hiding(1)), COLUMNS - 1)
    \o [i \in 1 .. PERMUTS - 1 |-> ToOpen(shifted_poly(shift[i]), non_hiding(1))]

\* The parameters of create_recursive_public_input_only (lines 176-179).
Parameters == {"group_map", "witness", "index", "prev_challenges"}

\* The source of the randomness handed to srs.open (line 529).
rng_source == "OsRng"

\* srs.open: the opening of the polynomials at the points, bound to the
\* two challenges and the sponge state, blinded by the randomness drawn.
srs_open(polys, points, polyscale, evalscale, sponge, rand) ==
    [opened |-> polys, points |-> points, polyscale |-> polyscale,
     evalscale |-> evalscale, sponge |-> sponge, rand |-> rand]

\* An opening that fails and makes the call return an error.
Open_failing ==
    /\ pc = "Open"
    /\ err' = "OpeningFailed"
    /\ pc' = "Failed"
    /\ UNCHANGED <<inputs, sponges, commitments, challenges, evaluations,
                   opening, verifier, runs, serialization>>

Open ==
    /\ pc = "Open"
    /\ \E r \in RngValues :
          LET polys == polynomials_to_open_of(prev_challenges, public_poly, ft,
                                              blinding_ft[1], witness_poly,
                                              index[1].shift)
              opening_proof == srs_open(polys, <<zeta, zeta_omega>>, v, u,
                                        fq_sponge_before_evaluations[1], r)
          IN  /\ polynomials_to_open' = polys
              /\ draws' = draws \o <<[source |-> rng_source, value |-> r]>>
              /\ proof' = <<[commitments |->
                                [w_comm |-> w_comm,
                                 z_comm |-> z_comm[1],
                                 t_comm |-> t_comm[1].commitment,
                                 lookup |-> <<>>],
                             proof |-> opening_proof,
                             evals |-> chunked_evals[1],
                             ft_eval1 |-> ft_eval1,
                             prev_challenges |-> prev_challenges]>>
    /\ pc' = "Done"
    /\ UNCHANGED <<inputs, err, sponges, commitments, challenges, evaluations,
                   fq_sponge_before_evaluations, verifier, runs,
                   serialization>>

(***************************************************************************)
(* The verifier (kimchi's verify), for a proof, an index and the public    *)
(* inputs.                                                                 *)
(***************************************************************************)
\* The negated public polynomial: -public[i] on row i, 0 on the other rows.
verifier_public_poly(public) ==
    Interpolate([i \in 1 .. N |-> IF i <= Len(public) THEN Fneg(public[i]) ELSE 0])

\* The commitment to it: the Lagrange basis scaled by the negated inputs,
\* masked with blinding factor 1.
verifier_public_comm(public) ==
    PolyComm(<<GAdd(GSum([i \in 1 .. Len(public) |->
                             GMul(LagrangeBasis(i - 1), Fneg(public[i]))]),
                    SrsH)>>)

\* The verifier's replay of the base-field transcript.
verifier_fq_ops(vi, prf, public) ==
    commit_witness_ops(index_digest(vi), prf.prev_challenges,
                       verifier_public_comm(public), prf.commitments.w_comm)
    \o beta_gamma_ops
    \o <<AbsorbComm("fq", "z_comm", prf.commitments.z_comm),
         Challenge("fq", "alpha"),
         AbsorbComm("fq", "t_comm", prf.commitments.t_comm),
         Challenge("fq", "zeta")>>

\* The verifier's replay of the scalar-field transcript.
verifier_fr_ops(fq_digest, prf, public_evals) ==
    <<Absorb("fr", "fq_sponge.digest", <<fq_digest>>)>>
    \o prev_challenge_ops(prf.prev_challenges)
    \o <<Absorb("fr", "prev_challenge_digest",
                <<prev_challenge_digest(prf.prev_challenges)>>),
         Absorb("fr", "ft_eval1", <<prf.ft_eval1>>),
         Absorb("fr", "public_input_eval_zeta", public_evals[1]),
         Absorb("fr", "public_input_eval_zeta_omega", public_evals[2]),
         Absorb("fr", "chunked_evals", evaluation_data(prf.evals)),
         Challenge("fr", "v"),
         Challenge("fr", "u")>>

\* The challenges the verifier derives from the proof's commitments and
\* evaluations and from its own public commitment and evaluations.
oracles(vi, prf, public) ==
    LET fq_ops == verifier_fq_ops(vi, prf, public)
        fq_end == RunOps("fq", FqSpongeNew, fq_ops)
        zeta_ == to_field(Squeezed("fq", FqSpongeNew, fq_ops, "zeta"))
        ppoly == verifier_public_poly(public)
        public_evals == <<<<PolyEval(ppoly, zeta_)>>,
                          <<PolyEval(ppoly, Fmul(zeta_, omega))>>>>
        fr_ops == verifier_fr_ops(SpongeDigest(fq_end), prf, public_evals)
    IN  [beta |-> Squeezed("fq", FqSpongeNew, fq_ops, "beta"),
         gamma |-> Squeezed("fq", FqSpongeNew, fq_ops, "gamma"),
         alpha |-> to_field(Squeezed("fq", FqSpongeNew, fq_ops, "alpha")),
         zeta |-> zeta_,
         v |-> to_field(Squeezed("fr", FrSpongeNew, fr_ops, "v")),
         u |-> to_field(Squeezed("fr", FrSpongeNew, fr_ops, "u")),
         public_evals |-> public_evals,
         fq_sponge |-> fq_end]

\* The constant term of the linearization: the generic gate,
\* scaled by its selector; the other gates' selectors evaluate to 0.
constant_term(e, alpha_) ==
    LET c(i) == e.coefficients[i + 1].zeta
        w(i) == e.w[i + 1].zeta
        first == Fadd(Fadd(Fadd(Fmul(c(0), w(0)), Fmul(c(1), w(1))),
                           Fadd(Fmul(c(2), w(2)), Fmul(c(3), Fmul(w(0), w(1))))),
                      c(4))
        second == Fadd(Fadd(Fadd(Fmul(c(5), w(3)), Fmul(c(6), w(4))),
                            Fadd(Fmul(c(7), w(5)), Fmul(c(8), Fmul(w(3), w(4))))),
                       c(9))
    IN  Fmul(e.generic_selector.zeta, Fadd(first, Fmul(alpha_, second)))

\* ft(zeta) as the verifier recomputes it from the challenges, the shifts,
\* the public evaluation and the proof's evaluations.
ft_eval0(vi, e, o) ==
    LET zkp == eval_zk_polynomial(o.zeta)
        zeta1m1 == Fsub(Fpow(o.zeta, N), 1)
        alphas == perm_alphas(o.alpha)
        init == Fmul(Fmul(Fmul(Fadd(e.w[PERMUTS].zeta, o.gamma), e.z.zeta_omega),
                          alphas[1]), zkp)
        sigma == FoldMul(init,
                    [i \in 1 .. PERMUTS - 1 |->
                        Fadd(Fadd(Fmul(o.beta, e.s[i].zeta), e.w[i].zeta), o.gamma)])
        ident == FoldMul(Fmul(Fmul(alphas[1], zkp), e.z.zeta),
                    [i \in 1 .. PERMUTS |->
                        Fadd(Fadd(o.gamma, Fmul(Fmul(o.beta, o.zeta), vi.shift[i])),
                             e.w[i].zeta)])
        w_zk == Fpow(omega, N - 3)
        numerator == Fmul(Fadd(Fmul(Fmul(zeta1m1, alphas[2]), Fsub(o.zeta, w_zk)),
                               Fmul(Fmul(zeta1m1, alphas[3]), Fsub(o.zeta, 1))),
                          Fsub(1, e.z.zeta))
        denominator == Fmul(Fsub(o.zeta, w_zk), Fsub(o.zeta, 1))
    IN  Fsub(Fadd(Fsub(Fsub(sigma, o.public_evals[1][1]), ident),
                  Fmul(numerator, Finv(denominator))),
             constant_term(e, o.alpha))

\* The commitment to ft: perm_scalars * sigma_comm[PERMUTS - 1], less the
\* chunked quotient commitment scaled by zeta^n - 1.
ft_comm(vi, prf, e, o) ==
    LET zeta_to_srs_len == Fpow(o.zeta, vi.max_poly_size)
        scalar == perm_scalars(e, o.beta, o.gamma, perm_alphas(o.alpha),
                               eval_zk_polynomial(o.zeta))
        f_comm == [unshifted |->
                      [k \in 1 .. Len(vi.sigma_comm[PERMUTS].unshifted) |->
                          GMul(vi.sigma_comm[PERMUTS].unshifted[k], scalar)],
                   shifted |-> vi.sigma_comm[PERMUTS].shifted]
        chunked_f_comm == chunk_commitment(f_comm, zeta_to_srs_len)
        chunked_t_comm == chunk_commitment(prf.commitments.t_comm, zeta_to_srs_len)
    IN  PolyComm(<<GAdd(chunked_f_comm,
                        GNeg(GMul(chunked_t_comm, Fsub(Fpow(o.zeta, N), 1))))>>)

\* One (commitment, evaluations) pair handed to the opening check.
Evaluation(comm, at_zeta, at_zeta_omega) ==
    [commitment |-> comm, evaluations |-> <<at_zeta, at_zeta_omega>>]

\* The pairs, in the order of the prover's polynomials_to_open.
verifier_evaluations(vi, prf, public, e, o) ==
    LET pe(comm, x) == Evaluation(comm, x.zeta, x.zeta_omega)
        zo == Fmul(o.zeta, omega)
    IN  [i \in 1 .. Len(prf.prev_challenges) |->
            LET b == from_coefficients_vec(
                         b_poly_coefficients(prf.prev_challenges[i].chals))
            IN  Evaluation(prf.prev_challenges[i].comm,
                           evaluate_chunks(b, o.zeta), evaluate_chunks(b, zo))]
        \o <<Evaluation(verifier_public_comm(public),
                        o.public_evals[1], o.public_evals[2]),
             Evaluation(ft_comm(vi, prf, e, o),
                        <<ft_eval0(vi, e, o)>>, <<prf.ft_eval1>>),
             pe(prf.commitments.z_comm, prf.evals.z),
             pe(vi.generic_comm, prf.evals.generic_selector),
             pe(vi.psm_comm, prf.evals.poseidon_selector),
             pe(vi.complete_add_comm, prf.evals.complete_add_selector),
             pe(vi.mul_comm, prf.evals.mul_selector),
             pe(vi.emul_comm, prf.evals.emul_selector),
             pe(vi.endomul_scalar_comm, prf.evals.endomul_scalar_selector)>>
        \o [i \in 1 .. COLUMNS |-> pe(prf.commitments.w_comm[i], prf.evals.w[i])]
        \o [i \in 1 .. COLUMNS |-> pe(vi.coefficients_comm[i], prf.evals.coefficients[i])]
        \o [i \in 1 .. PERMUTS - 1 |-> pe(vi.sigma_comm[i], prf.evals.s[i])]

\* The chunk c of a polynomial.
chunk(p, c) ==
    SubSeq(p, (c - 1) * SrsSize + 1,
           IF c * SrsSize < Len(p) THEN c * SrsSize ELSE Len(p))

\* The commitment scheme's verification of an opening: every commitment is
\* the commitment to the polynomial opened in its slot, with the blinding
\* opened there, the evaluations are that polynomial's at the two points,
\* and the opening is bound to the same points, challenges and sponge state.
srs_verify(es, points, polyscale, evalscale, sponge, opening_proof) ==
    /\ opening_proof.points = points
    /\ opening_proof.polyscale = polyscale
    /\ opening_proof.evalscale = evalscale
    /\ opening_proof.sponge = sponge
    /\ Len(opening_proof.opened) = Len(es)
    /\ \A i \in 1 .. Len(es) :
          LET o == opening_proof.opened[i]
              c == es[i].commitment
          IN  /\ Len(c.unshifted) = Len(o.blinding.unshifted)
              /\ Len(o.poly) <= SrsSize * Len(c.unshifted)
              /\ \A k \in 1 .. Len(c.unshifted) :
                    c.unshifted[k] = Commit(chunk(o.poly, k), o.blinding.unshifted[k])
              /\ \A j \in 1 .. 2 :
                    LET ev == es[i].evaluations[j]
                    IN  SeqSum([k \in 1 .. Len(ev) |->
                                   Fmul(ev[k], Fpow(Fpow(points[j], SrsSize), k - 1))])
                        = PolyEval(o.poly, points[j])

\* verify: the verdict on a proof.
verify(vi, prf, public) ==
    IF Len(public) # vi.public \/ Len(prf.prev_challenges) # vi.prev_challenges
    THEN [accepted |-> FALSE, public |-> public, oracles |-> <<>>,
          public_comm |-> verifier_public_comm(public)]
    ELSE LET o == oracles(vi, prf, public)
             e == combine(prf.evals,
                          PointEvaluations(Fpow(o.zeta, vi.max_poly_size),
                                           Fpow(Fmul(o.zeta, omega), vi.max_poly_size)))
             es == verifier_evaluations(vi, prf, public, e, o)
         IN  [accepted |-> srs_verify(es, <<o.zeta, Fmul(o.zeta, omega)>>, o.v, o.u,
                                      o.fq_sponge, prf.proof),
              public |-> public,
              oracles |-> <<o>>,
              public_comm |-> verifier_public_comm(public)]

(***************************************************************************)
(* The verifier's side: its own index, and its verdicts on the proof.      *)
(***************************************************************************)
\* The verifier builds the index for the same circuit shape by itself.
VerifierBuildIndex ==
    /\ pc = "Done"
    /\ verifier.index = <<>>
    /\ verifier' = [verifier EXCEPT
                       !.index = <<verifier_index(index[1].public,
                                                  index[1].prev_challenges)>>]
    /\ UNCHANGED <<pc, err, inputs, sponges, commitments, challenges,
                   evaluations, opening, runs,
                   serialization>>

\* p with its entry i negated.
Negated(p, i) == [p EXCEPT ![i] = Fneg(p[i])]

\* The vectors a proof is verified against: the prover's public inputs, or
\* those with one non-zero entry negated.
PublicCandidates ==
    {public_inputs}
    \cup {Negated(public_inputs, i) :
             i \in {k \in 1 .. Len(public_inputs) : public_inputs[k] # 0}}

Verify ==
    /\ pc = "Done"
    /\ verifier.index # <<>>
    /\ verifier.verdicts = <<>>
    /\ \E public \in PublicCandidates :
          verifier' = [verifier EXCEPT
                          !.verdicts = <<verify(verifier.index[1], proof[1], public)>>]
    /\ UNCHANGED <<pc, err, inputs, sponges, commitments, challenges,
                   evaluations, opening, runs,
                   serialization>>

\* A second, independent verification of the same proof against the same
\* public inputs.
VerifyAgain ==
    /\ pc = "Done"
    /\ Len(verifier.verdicts) = 1
    /\ verifier' = [verifier EXCEPT
                       !.verdicts = @ \o <<verify(verifier.index[1], proof[1],
                                                  verifier.verdicts[1].public)>>]
    /\ UNCHANGED <<pc, err, inputs, sponges, commitments, challenges,
                   evaluations, opening, runs,
                   serialization>>

(***************************************************************************)
(* The call returns; the index is kept for the next proof.                 *)
(***************************************************************************)
Return ==
    /\ pc \in {"Done", "Failed"}
    /\ pc' = "Ready"
    /\ public_inputs' = <<>> /\ witness' = <<>> /\ prev_challenges' = <<>>
    /\ Reset
    /\ verifier' = NoVerifier
    /\ runs' = <<>>
    /\ UNCHANGED <<index, serialization>>

\* The caller runs the prover again on the same arguments.
Rerun ==
    /\ pc = "Done"
    /\ runs = <<>>
    /\ verifier = NoVerifier
    /\ runs' = <<[challenges |-> challenges, proof |-> proof[1], draws |-> draws]>>
    /\ witness' = public_inputs
    /\ Reset
    /\ pc' = "PadWitness"
    /\ UNCHANGED <<index, public_inputs, prev_challenges, verifier,
                   serialization>>

Prove ==
    \/ PadWitness \/ CommitWitness \/ DeriveBetaGamma \/ CommitPermutation
    \/ DeriveAlpha \/ CommitQuotient \/ DeriveZeta \/ Evaluate \/ Linearize
    \/ DeriveVU \/ Open

Next ==
    \/ BuildIndex
    \/ create_recursive_public_input_only
    \/ create_public_input_only
    \/ Prove
    \/ VerifierBuildIndex
    \/ Verify
    \/ Return

Spec == Init /\ [][Next]_vars

\* The stages of create_recursive_public_input_only, in the order of its code.
StageOrder ==
    <<"PadWitness", "CommitWitness", "DeriveBetaGamma", "CommitPermutation",
      "DeriveAlpha", "CommitQuotient", "DeriveZeta", "Evaluate", "Linearize",
      "DeriveVU", "Open", "Done">>

StageNumber(stage) == CHOOSE i \in 1 .. Len(StageOrder) : StageOrder[i] = stage

Running == {StageOrder[i] : i \in 1 .. Len(StageOrder) - 1}

\* A step that leaves the stage the call is at.  The steps of Next that do so
\* are those of Prove, and Prove can be taken at every stage before Done.
LeaveStage ==
    /\ pc \in Running
    /\ pc' \in {StageOrder[StageNumber(pc) + 1], "Failed"}

\* A call runs to its return: the function is straight-line code without a
\* loop that waits, so a call that is at a stage leaves it.
SpecFair == Spec /\ WF_pc(LeaveStage)

\* The same program with a caller that repeats calls and verifications.
NextRerun == Next \/ Rerun \/ VerifyAgain

SpecRerun == Init /\ [][NextRerun]_vars

(***************************************************************************)
(* Evaluate and Linearize on challenges of any value: the two stages read  *)
(* beta, gamma, alpha and zeta as field elements, whatever the sponge made *)
(* them.                                                                   *)
(***************************************************************************)
\* The challenges drawn: 0 and the powers of the field's generator up to
\* MaxChallenge.
MaxChallenge == 1
ChallengeValues == {0} \cup {Fpow(FieldGenerator, k) : k \in 0 .. MaxChallenge}

\* The public inputs drawn: one or two of them.
LinearizeWitnesses == UNION {[1 .. k -> 0 .. MaxVal] : k \in 1 .. 2}

\* The state of a call at the stage Evaluate, for public inputs w and the
\* four challenges: what lines 187-292 leave behind, the sponges aside.
AtEvaluate ==
    /\ pc = "Idle"
    /\ \E w \in LinearizeWitnesses :
          LET padded == w \o Repeat(0, N - Len(w))
              unblinded_witness_comm == commit_evaluations_non_hiding(padded)
          IN  /\ index' = <<verifier_index(Len(w), 0)>>
              /\ public_inputs' = w
              /\ witness' = padded
              /\ witness_poly' = Interpolate(padded)
              /\ public_poly' = PolyNeg(Interpolate(padded))
              /\ public_comm' = <<public_comm_of(unblinded_witness_comm)>>
              /\ w_comm' = w_comm_of(unblinded_witness_comm)
    /\ z_comm' = <<z_comm_of>>
    /\ t_comm' = <<t_comm_of>>
    /\ \E b \in ChallengeValues, g \in ChallengeValues, a \in ChallengeValues,
          z \in ChallengeValues :
          beta' = b /\ gamma' = g /\ alpha' = a /\ zeta' = z
    /\ pc' = "Evaluate"
    /\ UNCHANGED <<prev_challenges, err, sponges, v, u, evaluations, opening,
                   verifier, runs, serialization>>

\* The linearization is read off and the call forgotten.
AfterLinearize ==
    /\ pc = "DeriveVU"
    /\ pc' = "Idle"
    /\ index' = <<>> /\ public_inputs' = <<>> /\ witness' = <<>>
    /\ Reset
    /\ UNCHANGED <<prev_challenges, verifier, runs, serialization>>

NextLinearize == AtEvaluate \/ Evaluate \/ Linearize \/ AfterLinearize

SpecLinearize == Init /\ [][NextLinearize]_vars

(***************************************************************************)
(* msm: the lookup tables of the serialization circuit                     *)
(* (serialization/mod.rs).                                                 *)
(***************************************************************************)
\* Domains handed to entries have 2^k rows, k from MinLogSize to MaxLogSize.
MinLogSize == 14
MaxLogSize == 16

N_INTERMEDIATE_LIMBS == 20
\* crate::N_LIMBS: the 15-bit limbs of a field element.
N_LIMBS == 17
\* interpreter::ff_modulus_highest_limb::<Ff1>(): the highest 15-bit limb of
\* the foreign modulus.
ff_modulus_highest_limb == 12388

LookupTables ==
    {"RangeCheck15", "RangeCheck4", "RangeCheck4Abs", "RangeCheckFfHighest"}

\* LookupTableID::length
length(table) ==
    CASE table = "RangeCheck15" -> 2 ^ 15
      [] table = "RangeCheck4" -> 2 ^ 4
      [] table = "RangeCheck4Abs" -> 2 ^ 5
      [] table = "RangeCheckFfHighest" -> ff_modulus_highest_limb

\* An element of the scalar field F, written a * p + b * 2^64 + c with p
\* the modulus of F (of some 254 bits) and c small: a u64 below 2^31 is
\* (0, 0, c), a u64 that wrapped below zero is (0, 1, c) with c < 0, and the
\* negative of a small k > 0 is (1, 0, -k).  The three forms denote
\* different elements.
FieldElement(a, b, c) == [modulus |-> a, two64 |-> b, small |-> c]
F_from(i) == FieldElement(0, 0, i)
F_zero == F_from(0)
F_neg(k) == IF k = 0 THEN F_zero ELSE FieldElement(1, 0, 0 - k)

\* a - b on u64: the difference, or what an underflow comes to: a panic
\* when overflow checks are compiled in, 2^64 + a - b when they are not.
u64_sub(a, b, checks) ==
    IF a >= b THEN [panic |-> FALSE, underflow |-> FALSE, value |-> F_from(a - b)]
    ELSE IF checks THEN [panic |-> TRUE, underflow |-> TRUE, value |-> F_zero]
    ELSE [panic |-> FALSE, underflow |-> TRUE,
          value |-> FieldElement(0, 1, a - b)]

\* The closure mapped over the rows (lines 110-127), for row i.  The row
\* indices stay below 2^17, so i << 4 and 2 * (i << 4) do not overflow.
entry(table, i, checks) ==
    LET done(x) == [panic |-> FALSE, underflow |-> FALSE, value |-> x]
    IN  CASE table = "RangeCheck15" -> done(F_from(i))
          [] table = "RangeCheck4" ->
                IF i < 2 ^ 4 THEN done(F_from(i)) ELSE done(F_zero)
          [] table = "RangeCheck4Abs" ->
                IF i < 2 ^ 4 THEN done(F_from(i))
                ELSE IF i < 2 * (i * 2 ^ 4) THEN u64_sub(i, 2 * 2 ^ 4, checks)
                ELSE done(F_zero)
          [] table = "RangeCheckFfHighest" ->
                IF i < ff_modulus_highest_limb THEN done(F_from(i))
                ELSE done(F_zero)

\* The rows whose entry takes the subtraction below zero.
underflow_rows(table, n, checks) ==
    IF table = "RangeCheck4Abs"
    THEN {i \in 0 .. 2 * 2 ^ 4 : i < n /\ entry(table, i, checks).underflow}
    ELSE {}

\* LookupTable::entries (lines 107-129): the assertion on the domain size,
\* then the column, unless a row panics.  The rows reached are those up to
\* the first panic.
entries(table, n, checks) ==
    IF n < 2 ^ 15
    THEN [status |-> "assertion failed", column |-> <<>>, underflowed |-> {}]
    ELSE LET under == underflow_rows(table, n, checks)
         IN  IF checks /\ under # {}
             THEN [status |-> "attempt to subtract with overflow",
                   column |-> <<>>,
                   underflowed |-> {CHOOSE i \in under : \A j \in under : i <= j}]
             ELSE [status |-> "ok",
                   column |-> [r \in 1 .. n |-> entry(table, r - 1, checks).value],
                   underflowed |-> under]

\* The state of the prover and verifier of kimchi.
kimchi == <<pc, err, inputs, sponges, commitments, challenges, evaluations,
            opening, verifier, runs>>

\* A call of LookupTable::entries on a domain of 2^k rows.
CallEntries ==
    /\ test_pc = "Idle"
    /\ lookup_table = <<>>
    /\ \E table \in LookupTables, k \in MinLogSize .. MaxLogSize,
          checks \in BOOLEAN :
          LET res == entries(table, 2 ^ k, checks)
          IN  /\ lookup_table' = <<table>>
              /\ domain_size' = 2 ^ k
              /\ overflow_checks' = checks
              /\ entries_result' = <<[status |-> res.status, column |-> res.column]>>
              /\ underflowed' = res.underflowed
    /\ UNCHANGED <<kimchi, completeness_test>>

\* The column is dropped.
DropEntries ==
    /\ lookup_table # <<>>
    /\ lookup_table' = <<>> /\ domain_size' = 0 /\ overflow_checks' = FALSE
    /\ entries_result' = <<>> /\ underflowed' = {}
    /\ UNCHANGED <<kimchi, completeness_test>>

(***************************************************************************)
(* msm: test_completeness (lines 132-259), up to the lookup witnesses      *)
(* handed to the prover.                                                   *)
(***************************************************************************)
\* The rows of the test stand for its DOMAIN_SIZE rows; the values a limb
\* takes are 0 .. MaxLimb.
MaxRows == 2
MaxLimb == 1

\* The tables of rangecheck_tables, in the order of the BTreeMap: the order
\* of the variants of the enum.
TestTables == <<"RangeCheck15", "RangeCheck4", "RangeCheck4Abs">>

\* The request columns of a table: the array of the table has one more
\* element, for the table's own column (lines 162-166).
RequestColumns(table) ==
    CASE table = "RangeCheck4" -> N_INTERMEDIATE_LIMBS
      [] table = "RangeCheck4Abs" -> 6
      [] table = "RangeCheck15" -> N_LIMBS

\* Lookup { table_id, numerator, value }
Lookup(table_id, numerator, value) ==
    [table_id |-> table_id, numerator |-> numerator, value |-> value]

\* The values the limbs of one row may take in a table: the same value in
\* every limb, or the two values in turn.  Every row of the test
\* deserializes the same field element.
LimbChoices(table) ==
    {[j \in 1 .. RequestColumns(table) |-> a] : a \in 0 .. MaxLimb}
    \cup {[j \in 1 .. RequestColumns(table) |-> j % (MaxLimb + 1)]}

\* witness::Env::create(): no lookup yet, every multiplicity zero.  The
\* multiplicities are kept for the entries 0 .. MaxLimb, the only ones a
\* request can count towards.
witness_env_create ==
    [lookups |-> [k \in 1 .. Len(TestTables) |-> <<>>],
     rangecheck15_multiplicities |-> [e \in 0 .. MaxLimb |-> 0]]

\* deserialize_field_element on the witness environment: one request per
\* limb and table, and one more towards the multiplicity of each value
\* looked up in RangeCheck15.
deserialize_field_element(env, limbs_) ==
    [lookups |->
        [k \in 1 .. Len(TestTables) |->
            [j \in 1 .. RequestColumns(TestTables[k]) |->
                Lookup(TestTables[k], 1, <<F_from(limbs_[k][j])>>)]],
     rangecheck15_multiplicities |->
        [e \in 0 .. MaxLimb |->
            env.rangecheck15_multiplicities[e]
            + Cardinality({j \in 1 .. N_LIMBS : limbs_[1][j] = e})]]

\* witness_env.reset(): the lookups of the row are dropped.
witness_env_reset(env) ==
    [env EXCEPT !.lookups = [k \in 1 .. Len(TestTables) |-> <<>>]]

\* get_rangecheck15_multiplicities
get_rangecheck15_multiplicities(env) == env.rangecheck15_multiplicities

\* Lines 133-171: the field element is drawn, the tables are empty.
StartTest ==
    /\ test_pc = "Idle"
    /\ lookup_table = <<>>
    /\ \E l15 \in LimbChoices("RangeCheck15"), l4 \in LimbChoices("RangeCheck4"),
          l4abs \in LimbChoices("RangeCheck4Abs") :
          limbs' = <<l15, l4, l4abs>>
    /\ witness_env' = <<witness_env_create>>
    /\ rangecheck_tables' =
          [k \in 1 .. Len(TestTables) |->
              [j \in 1 .. RequestColumns(TestTables[k]) + 1 |-> <<>>]]
    /\ test_pc' = "Rows"
    /\ UNCHANGED <<kimchi, table_entries, rangecheck_multiplicities, mvlookups>>

\* The rows deserialized so far.
RowsDone == Len(rangecheck_tables[1][1])

\* One turn of the loop of lines 173-194.
DeserializeRow ==
    /\ test_pc = "Rows"
    /\ RowsDone < MaxRows
    /\ LET env == deserialize_field_element(witness_env[1], limbs)
       IN  /\ rangecheck_tables' =
                 [k \in 1 .. Len(TestTables) |->
                     [j \in 1 .. Len(rangecheck_tables[k]) |->
                         IF j <= Len(env.lookups[k])
                         THEN Append(rangecheck_tables[k][j], env.lookups[k][j])
                         ELSE rangecheck_tables[k][j]]]
           /\ witness_env' = <<witness_env_reset(env)>>
    /\ UNCHANGED <<kimchi, table_entries, test_pc, limbs,
                   rangecheck_multiplicities, mvlookups>>

\* The column written into the last element of a table's array (lines
\* 206-215): the entries of RangeCheck15 with the numerators -rangecheck_m,
\* on the rows 0 .. MaxLimb.
rangecheck_t(table_id, rangecheck_m) ==
    [i \in 1 .. MaxLimb + 1 |->
        Lookup(table_id, 0 - rangecheck_m[i - 1],
               <<entry("RangeCheck15", i - 1, overflow_checks).value>>)]

\* Lines 202-216, after the last row.
CollectMultiplicities ==
    /\ test_pc = "Rows"
    /\ RowsDone = MaxRows
    /\ LET rangecheck_m == get_rangecheck15_multiplicities(witness_env[1])
       IN  /\ rangecheck_multiplicities' =
                 [k \in 1 .. Len(TestTables) |-> <<rangecheck_m>>]
           /\ rangecheck_tables' =
                 [k \in 1 .. Len(TestTables) |->
                     [rangecheck_tables[k] EXCEPT
                         ![Len(rangecheck_tables[k])] =
                             rangecheck_t(TestTables[k], rangecheck_m)]]
    /\ test_pc' = "Tables"
    /\ UNCHANGED <<kimchi, table_entries, limbs, witness_env, mvlookups>>

\* MVLookupWitness { f, m }
MVLookupWitness(f, m) == [f |-> f, m |-> m]

\* Lines 218-229: the lookup witnesses of the proof inputs.
HandToProver ==
    /\ test_pc = "Tables"
    /\ mvlookups' =
          [k \in 1 .. Len(TestTables) |->
              MVLookupWitness(rangecheck_tables[k], rangecheck_multiplicities[k][1])]
    /\ test_pc' = "Proving"
    /\ UNCHANGED <<kimchi, table_entries, limbs, witness_env, rangecheck_tables,
                   rangecheck_multiplicities>>

\* The test ends.
FinishTest ==
    /\ test_pc = "Proving"
    /\ test_pc' = "Idle" /\ limbs' = <<>> /\ witness_env' = <<>>
    /\ rangecheck_tables' = <<>> /\ rangecheck_multiplicities' = <<>>
    /\ mvlookups' = <<>>
    /\ UNCHANGED <<kimchi, table_entries>>

NextSerialization ==
    \/ CallEntries
    \/ DropEntries
    \/ StartTest
    \/ DeserializeRow
    \/ CollectMultiplicities
    \/ HandToProver
    \/ FinishTest

SpecSerialization == Init /\ [][NextSerialization]_vars

(***************************************************************************)
(* Properties                                                              *)
(***************************************************************************)
\* The stages after PadWitness has succeeded.
Padded ==
    pc \in {"CommitWitness", "DeriveBetaGamma", "CommitPermutation",
            "DeriveAlpha", "CommitQuotient", "DeriveZeta", "Evaluate",
            "Linearize", "DeriveVU", "Open", "Done"}

IsPrefix(s, t) == Len(s) <= Len(t) /\ s = SubSeq(t, 1, Len(s))

\* The operations on the two sponges of the transcript proper: the sponge,
\* the operation and what it absorbs or squeezes.
MainTranscript ==
    LET main == SelectSeq(transcript, LAMBDA o : o.sponge \in {"fq", "fr"})
    IN  [k \in 1 .. Len(main) |-> <<main[k].sponge, main[k].op, main[k].item>>]

\* The sequence the code follows, for k recursion challenges.
TranscriptOrder(k) ==
    <<<<"fq", "absorb", "verifier_index_digest">>>>
    \o Repeat(<<"fq", "absorb", "prev_challenges.comm">>, k)
    \o <<<<"fq", "absorb", "public_comm">>>>
    \o Repeat(<<"fq", "absorb", "w_comm">>, COLUMNS)
    \o << <<"fq", "challenge", "beta">>,
          <<"fq", "challenge", "gamma">>,
          <<"fq", "absorb", "z_comm">>,
          <<"fq", "challenge", "alpha">>,
          <<"fq", "absorb", "t_comm">>,
          <<"fq", "challenge", "zeta">>,
          <<"fq", "digest", "digest">>,
          <<"fr", "absorb", "fq_sponge.digest">>,
          <<"fr", "absorb", "prev_challenge_digest">>,
          <<"fr", "absorb", "ft_eval1">>,
          <<"fr", "absorb", "public_input_eval_zeta">>,
          <<"fr", "absorb", "public_input_eval_zeta_omega">>,
          <<"fr", "absorb", "chunked_evals">>,
          <<"fr", "challenge", "v">>,
          <<"fr", "challenge", "u">> >>

\* The sequence section 4.1 of the specification gives: no public
\* commitment, and the ft evaluation ahead of the recursion-challenge digest.
\* The switch to the scalar sponge is the digest of the base-field sponge
\* and its absorption into the scalar sponge.
StatedTranscriptOrder(k) ==
    <<<<"fq", "absorb", "verifier_index_digest">>>>
    \o Repeat(<<"fq", "absorb", "prev_challenges.comm">>, k)
    \o Repeat(<<"fq", "absorb", "w_comm">>, COLUMNS)
    \o << <<"fq", "challenge", "beta">>,
          <<"fq", "challenge", "gamma">>,
          <<"fq", "absorb", "z_comm">>,
          <<"fq", "challenge", "alpha">>,
          <<"fq", "absorb", "t_comm">>,
          <<"fq", "challenge", "zeta">>,
          <<"fq", "digest", "digest">>,
          <<"fr", "absorb", "fq_sponge.digest">>,
          <<"fr", "absorb", "ft_eval1">>,
          <<"fr", "absorb", "prev_challenge_digest">>,
          <<"fr", "absorb", "public_input_eval_zeta">>,
          <<"fr", "absorb", "public_input_eval_zeta_omega">>,
          <<"fr", "absorb", "chunked_evals">>,
          <<"fr", "challenge", "v">>,
          <<"fr", "challenge", "u">> >>

\* What an absorption named `item` absorbs, the occ-th time it occurs.
AbsorbedValue(item, occ) ==
    CASE item = "verifier_index_digest" -> <<index_digest(index[1])>>
      [] item = "prev_challenges.comm" ->
            Flatten(prev_challenges[occ].comm.unshifted)
      [] item = "public_comm" -> Flatten(public_comm[1].unshifted)
      [] item = "w_comm" -> Flatten(w_comm[occ].unshifted)
      [] item = "z_comm" -> Flatten(z_comm[1].unshifted)
      [] item = "t_comm" -> Flatten(t_comm[1].commitment.unshifted)
      [] item = "fq_sponge.digest" ->
            <<SpongeDigest(fq_sponge_before_evaluations[1])>>
      [] item = "prev_challenge_digest" ->
            <<prev_challenge_digest(prev_challenges)>>
      [] item = "ft_eval1" -> <<ft_eval1>>
      [] item = "public_input_eval_zeta" -> <<Fneg(evals.w[1].zeta)>>
      [] item = "public_input_eval_zeta_omega" -> <<Fneg(evals.w[1].zeta_omega)>>
      [] item = "chunked_evals" -> evaluation_data(chunked_evals[1])

\* Every absorption of the transcript proper absorbs the value it names.
AbsorbsNamedValues ==
    LET main == SelectSeq(transcript, LAMBDA o : o.sponge \in {"fq", "fr"})
    IN  \A k \in 1 .. Len(main) :
           main[k].op = "absorb" =>
              main[k].data =
                 AbsorbedValue(main[k].item,
                     Cardinality({j \in 1 .. k : main[j].item = main[k].item}))

\* C1 (as the code has it): while create_recursive_public_input_only runs,
\* the sponge operations so far are a prefix of: index digest, the
\* recursion-challenge commitments, the public commitment, the witness
\* commitments, beta, gamma, the permutation commitment, alpha, the quotient
\* commitment, zeta', the digest absorbed into the scalar sponge, the
\* recursion-challenge digest, the ft evaluation, the public evaluations at
\* zeta and zeta*omega, the remaining evaluations, v, u; a finished run has
\* done all of them and each absorption absorbed the value named.
C1_TranscriptOrder ==
    /\ IsPrefix(MainTranscript, TranscriptOrder(Len(prev_challenges)))
    /\ pc = "Done" =>
          /\ MainTranscript = TranscriptOrder(Len(prev_challenges))
          /\ AbsorbsNamedValues

\* C1 as stated: a finished run has done exactly the operations of the
\* specification's section 4.1, in its order.
C1_StatedTranscriptOrder ==
    pc = "Done" => MainTranscript = StatedTranscriptOrder(Len(prev_challenges))

\* A finished run with a recursion challenge.
C1_Witness == pc = "Done" /\ Len(prev_challenges) = 1 /\ Len(transcript) > 0

\* C2: a witness longer than the domain makes the call fail with the size
\* error before any sponge, commitment or proof exists; a witness of at
\* most N elements (N included) is extended with zeros to N elements, its
\* own elements first, and raises no error.
C2_PadWitness ==
    /\ pc = "Failed" =>
          /\ Len(public_inputs) > N
          /\ err = "NoRoomForZkInWitness"
          /\ witness = public_inputs
          /\ proof = <<>> /\ transcript = <<>>
          /\ fq_sponge = <<>> /\ fr_sponge = <<>>
          /\ public_comm = <<>> /\ w_comm = <<>> /\ z_comm = <<>> /\ t_comm = <<>>
    /\ Padded =>
          /\ Len(public_inputs) <= N
          /\ err = ""
          /\ Len(witness) = N
          /\ SubSeq(witness, 1, Len(public_inputs)) = public_inputs
          /\ \A i \in Len(public_inputs) + 1 .. N : witness[i] = 0

\* A call with N + 1 elements has failed.
C2_Witness == pc = "Failed" /\ Len(public_inputs) = N + 1

\* The verdicts on the prover's own public inputs.
HonestVerdicts ==
    {i \in 1 .. Len(verifier.verdicts) : verifier.verdicts[i].public = public_inputs}

\* The verdicts on public inputs with one non-zero entry negated.
NegatedVerdicts ==
    {i \in 1 .. Len(verifier.verdicts) : verifier.verdicts[i].public # public_inputs}

\* C3: a proof made from public inputs that fit the domain, with no
\* recursion challenges, against an index built for that number of public
\* inputs, is accepted when verified against the same public inputs and an
\* index built the same way.
C3_Completeness ==
    \A i \in HonestVerdicts :
       (/\ Len(public_inputs) <= N
        /\ prev_challenges = <<>>
        /\ index[1] = verifier_index(Len(public_inputs), 0)
        /\ verifier.index[1] = verifier_index(Len(public_inputs), 0))
       => verifier.verdicts[i].accepted

\* A proof for a non-zero public input vector has been accepted.
C3_Witness ==
    /\ HonestVerdicts # {}
    /\ prev_challenges = <<>>
    /\ \E k \in 1 .. Len(public_inputs) : public_inputs[k] # 0
    /\ \A i \in HonestVerdicts : verifier.verdicts[i].accepted

C5_TranscriptDeterminism ==
    /\ (pc = "Done" /\ runs # <<>>) =>
          /\ challenges = runs[1].challenges
          /\ proof[1] = runs[1].proof
    /\ Len(verifier.verdicts) = 2 =>
          verifier.verdicts[1].oracles = verifier.verdicts[2].oracles

\* C6 as stated: every random value the prover uses comes from one of the
\* parameters of the call.
C6_ExplicitRandomness ==
    \A i \in 1 .. Len(draws) : draws[i].source \in Parameters

\* The optional gates: the feature flag, the index's selector commitment and
\* the proof's selector evaluation of each.
OptionalGates(vi, e) ==
    {<<vi.linearization.range_check0, vi.range_check0_comm, e.range_check0_selector>>,
     <<vi.linearization.range_check1, vi.range_check1_comm, e.range_check1_selector>>,
     <<vi.linearization.foreign_field_add, vi.foreign_field_add_comm,
       e.foreign_field_add_selector>>,
     <<vi.linearization.foreign_field_mul, vi.foreign_field_mul_comm,
       e.foreign_field_mul_selector>>,
     <<vi.linearization.xor, vi.xor_comm, e.xor_selector>>,
     <<vi.linearization.rot, vi.rot_comm, e.rot_selector>>}

\* The lookup flags of the index, and the lookup evaluations of a proof.
LookupFlags(vi) ==
    LET f == vi.linearization.lookup_features
    IN  {f.patterns.xor, f.patterns.lookup, f.patterns.range_check,
         f.patterns.foreign_field_mul, f.joint_lookup_used, f.uses_runtime_tables}

LookupEvaluations(e) ==
    {e.runtime_lookup_table_selector, e.xor_lookup_selector,
     e.lookup_gate_lookup_selector, e.range_check_lookup_selector,
     e.foreign_field_mul_lookup_selector, e.lookup_aggregation, e.lookup_table,
     e.runtime_lookup_table}
    \cup {e.lookup_sorted[i] : i \in 1 .. Len(e.lookup_sorted)}

\* C7: in the index every optional gate is switched off and has no selector
\* commitment, every lookup flag is off and there is no lookup index; in a
\* proof made with it every optional selector evaluation and every lookup
\* evaluation is absent, and so is the lookup commitment.  No optional field
\* is present on one side and absent on the other.
C7_FeatureFlagAgreement ==
    /\ index # <<>> =>
          /\ \A g \in OptionalGates(index[1], proof_evaluations(0, 0, index[1].shift, <<>>)) :
                g[1] = FALSE /\ g[2] = <<>>
          /\ LookupFlags(index[1]) = {FALSE}
          /\ index[1].lookup_index = <<>>
    /\ proof # <<>> =>
          /\ \A g \in OptionalGates(index[1], proof[1].evals) :
                /\ (g[2] = <<>>) <=> (g[3] = <<>>)
                /\ g[1] = (g[3] # <<>>)
          /\ LookupEvaluations(proof[1].evals) = {<<>>}
          /\ proof[1].commitments.lookup = <<>>
          /\ (index[1].lookup_index = <<>>) <=> (proof[1].commitments.lookup = <<>>)

\* A proof exists for a non-empty public input vector.
C7_Witness == proof # <<>> /\ index # <<>> /\ Len(public_inputs) > 0

C9_IndexContents ==
    index # <<>> =>
       LET vi == index[1]
           one == make_comm(Commit(one_polynomial, 0))
           zero == make_comm(Commit(zero_polynomial, 1))
       IN  /\ \A i \in 1 .. PERMUTS :
                 vi.sigma_comm[i] =
                    make_comm(Commit(from_coefficients_vec(<<0, vi.shift[i]>>), 0))
           /\ vi.generic_comm = one
           /\ vi.coefficients_comm[1] = one
           /\ \A i \in 2 .. COLUMNS : vi.coefficients_comm[i] = zero
           /\ \A c \in {vi.psm_comm, vi.complete_add_comm, vi.mul_comm,
                        vi.emul_comm, vi.endomul_scalar_comm} : c = zero
           /\ zero # make_comm(GZero)

\* An index has been built and a proof made with it.
C9_Witness == index # <<>> /\ pc = "Done"

\* The polynomials handed to the opening, in the order they are handed over.
OpenedPolys == [i \in 1 .. Len(polynomials_to_open) |-> polynomials_to_open[i].poly]

\* C10: the polynomials opened are, in this order, the recursion-challenge
\* polynomials, the public polynomial, ft, the permutation aggregation, the
\* generic selector, the five disabled selectors, the witness columns, the
\* coefficient columns and the first PERMUTS - 1 permutation polynomials, in
\* all nprev + 9 + 2 * COLUMNS + PERMUTS - 1; they are opened at zeta and
\* zeta * omega with the challenges v and u.
C10_OpeningList ==
    pc = "Done" =>
       LET k == Len(prev_challenges)
       IN  /\ Len(polynomials_to_open) = k + 9 + 2 * COLUMNS + PERMUTS - 1
           /\ OpenedPolys =
                 [i \in 1 .. k |->
                     from_coefficients_vec(b_poly_coefficients(prev_challenges[i].chals))]
                 \o <<PolyNeg(Interpolate(witness)), ft, one_polynomial, one_polynomial>>
                 \o Repeat(zero_polynomial, 5)
                 \o <<Interpolate(witness)>> \o Repeat(zero_polynomial, COLUMNS - 1)
                 \o <<one_polynomial>> \o Repeat(zero_polynomial, COLUMNS - 1)
                 \o [i \in 1 .. PERMUTS - 1 |->
                        from_coefficients_vec(<<0, index[1].shift[i]>>)]
           /\ proof[1].proof.opened = polynomials_to_open
           /\ proof[1].proof.points = <<zeta, Fmul(zeta, omega)>>
           /\ proof[1].proof.polyscale = v
           /\ proof[1].proof.evalscale = u

\* A proof with a recursion challenge and a public polynomial unlike ft.
C10_Witness ==
    /\ pc = "Done"
    /\ Len(prev_challenges) = 1
    /\ public_poly # ft
    /\ public_poly # zero_polynomial

\* The column LookupTable::entries returned, when it returned one.
Column == entries_result[1].column

\* The element is one of the u64 values 0 .. bound - 1.
InRange(x, bound) ==
    x.modulus = 0 /\ x.two64 = 0 /\ 0 <= x.small /\ x.small < bound

\* C11 as stated: for every domain size entries accepts, the column of
\* RangeCheck15, RangeCheck4 and RangeCheckFfHighest holds every value below
\* the table's length and no value from outside that range, and the column
\* of RangeCheck15 holds each value on one row only.
C11_RangeTableCompleteness ==
    (/\ lookup_table # <<>>
     /\ domain_size >= 2 ^ 15
     /\ lookup_table[1] \in {"RangeCheck15", "RangeCheck4", "RangeCheckFfHighest"})
    => /\ entries_result[1].status = "ok"
       /\ \A x \in 0 .. length(lookup_table[1]) - 1 : Column[x + 1] = F_from(x)
       /\ \A r \in 1 .. Len(Column) : InRange(Column[r], length(lookup_table[1]))
       /\ lookup_table[1] = "RangeCheck15" =>
             \A r \in 1 .. Len(Column) : Column[r] = F_from(r - 1)

\* The requests of a lookup witness: the lookups of every column but the
\* last.
Requests(w) ==
    {<<j, i>> : j \in 1 .. Len(w.f) - 1, i \in 1 .. MaxRows}

\* C12 as stated: for each table handed to the prover, every request has
\* numerator 1 and names the table, row i of the table's own column has
\* numerator minus the i-th multiplicity, and the multiplicities add up to
\* the number of requests that name the table.
C12_MultiplicityLaw ==
    test_pc = "Proving" =>
       \A k \in 1 .. Len(mvlookups) :
          LET w == mvlookups[k]
              own == w.f[Len(w.f)]
              referencing ==
                 {q \in Requests(w) : w.f[q[1]][q[2]].table_id = TestTables[k]}
          IN  /\ \A q \in Requests(w) : w.f[q[1]][q[2]].numerator = 1
              /\ \A i \in 1 .. Len(own) : own[i].numerator = 0 - w.m[i - 1]
              /\ SeqSum([i \in 1 .. MaxLimb + 1 |-> w.m[i - 1]])
                 = Cardinality(referencing)

\* C16 as stated: for a domain of n >= 2^15 rows the column of
\* RangeCheck4Abs has n rows: 0 .. 15 on the rows 0 .. 15, -16 .. -1 on the
\* rows 16 .. 31 and 0 on every later row, so the rows before length() are
\* the ones that are not padding.
C16_RangeCheck4AbsLayout ==
    (lookup_table = <<"RangeCheck4Abs">> /\ domain_size >= 2 ^ 15)
    => /\ entries_result[1].status = "ok"
       /\ Len(Column) = domain_size
       /\ \A i \in 0 .. 15 : Column[i + 1] = F_from(i)
       /\ \A i \in 16 .. 31 : Column[i + 1] = F_neg(32 - i)
       /\ \A i \in 32 .. domain_size - 1 : Column[i + 1] = F_zero
       /\ length("RangeCheck4Abs") = 32

\* C18 as stated: no row's subtraction i - 2 * (1 << 4) is evaluated with
\* i < 32, for any domain of n >= 2^15 rows.
C18_NoUnderflow ==
    (lookup_table = <<"RangeCheck4Abs">> /\ domain_size >= 2 ^ 15)
    => underflowed = {}

\* What the verifier has in hand once the prover has linearized: the proof's
\* evaluations and quotient commitment, and the challenges with the public
\* evaluations.
LinearizedProof ==
    [evals |-> chunked_evals[1],
     commitments |-> [t_comm |-> t_comm[1].commitment]]

LinearizedOracles ==
    [beta |-> beta, gamma |-> gamma, alpha |-> alpha, zeta |-> zeta,
     public_evals |-> <<<<PolyEval(verifier_public_poly(public_inputs), zeta)>>,
                       <<PolyEval(verifier_public_poly(public_inputs),
                                  Fmul(zeta, omega))>>>>]

\* The permutation scalar of the degenerate circuit, written out: the
\* accumulator is 1, sigma i evaluates to shift[i] * zeta, witness column 0
\* to the public inputs' polynomial and the other columns to 0.
DegenerateScalar ==
    LET shift == index[1].shift
        zkp == Fmul(Fmul(Fsub(zeta, Fpow(omega, N - 1)), Fsub(zeta, Fpow(omega, N - 2))),
                    Fsub(zeta, Fpow(omega, N - 3)))
        col0 == Fadd(Fadd(gamma, Fmul(beta, Fmul(shift[1], zeta))),
                     PolyEval(witness_poly, zeta))
        rest == [i \in 2 .. PERMUTS - 1 |->
                    Fadd(gamma, Fmul(beta, Fmul(shift[i], zeta)))]
    IN  Fneg(Fmul(Fmul(Fmul(Fmul(beta, Fpow(alpha, 21)), zkp), col0),
                  Fmul(Fmul(Fmul(rest[2], rest[3]), Fmul(rest[4], rest[5])), rest[6])))

\* C13: for every beta, gamma, alpha and zeta, ft is x * (scalar *
\* shift[PERMUTS - 1]) with scalar the closed form of perm_scalars on the
\* proof's evaluations, ft_eval1 is ft(zeta * omega), and both are what the
\* verifier reconstructs: its commitment to ft is the commitment of the
\* prover's ft under the prover's blinding, and its value for ft(zeta) is
\* the prover's ft at zeta.
C13_DegeneratePermutation ==
    pc = "DeriveVU" =>
       LET shift == index[1].shift
           scalar == perm_scalars(evals, beta, gamma, perm_alphas(alpha),
                                  eval_zk_polynomial(zeta))
       IN  /\ scalar = DegenerateScalar
           /\ ft = from_coefficients_vec(<<0, Fmul(scalar, shift[PERMUTS])>>)
           /\ ft_eval1 = Fmul(Fmul(scalar, shift[PERMUTS]), Fmul(zeta, omega))
           /\ ft_eval1 = PolyEval(ft, Fmul(zeta, omega))
           /\ ft_comm(index[1], LinearizedProof, evals, LinearizedOracles)
              = PolyComm(<<Commit(ft, blinding_ft[1].unshifted[1])>>)
           /\ ft_eval0(index[1], evals, LinearizedOracles) = PolyEval(ft, zeta)

\* A linearization on non-zero challenges with zeta outside the domain, a
\* non-zero public input and a non-zero ft.
C13_Witness ==
    /\ pc = "DeriveVU"
    /\ beta # 0 /\ gamma # 0 /\ alpha # 0 /\ zeta # 0
    /\ Fpow(zeta, N) # 1
    /\ \E k \in 1 .. Len(public_inputs) : public_inputs[k] # 0
    /\ ft # zero_polynomial

\* Every step taken at a stage leaves it for the next one, or, at PadWitness
\* only, for the error return.
StageLeft ==
    pc \in Running =>
       \/ pc' = StageOrder[StageNumber(pc) + 1] /\ err' = ""
       \/ pc = "PadWitness" /\ pc' = "Failed" /\ err' = "NoRoomForZkInWitness"

\* A stage is entered from the stage before it, and the first from the call.
StageEntered ==
    (pc' # pc /\ pc' \in Running \cup {"Done"}) =>
       IF pc' = "PadWitness" THEN pc = "Ready"
       ELSE pc = StageOrder[StageNumber(pc') - 1]

\* C14: a call passes through PadWitness, CommitWitness, DeriveBetaGamma,
\* CommitPermutation, DeriveAlpha, CommitQuotient, DeriveZeta, Evaluate,
\* Linearize, DeriveVU, Open and Done in that order, each at most once and
\* never back to an earlier one; a call whose witness fits the domain
\* eventually reaches Done; and an error is returned from PadWitness only.
C14_StageOrder ==
    /\ [][StageLeft /\ StageEntered]_vars
    /\ [](err # "" <=> pc = "Failed")
    /\ (pc = "PadWitness" /\ Len(witness) <= index[1].domain) ~> (pc = "Done")

\* A call that went through every stage, on a witness that fills the domain
\* and with a recursion challenge.
C14_Witness ==
    /\ pc = "Done"
    /\ Len(public_inputs) = N
    /\ Len(prev_challenges) > 0
    /\ proof # <<>>
    /\ Len(transcript) > 0 /\ err = ""

\* A slot of the evaluation record: the pair recorded, the polynomial the
\* prover stands for in that slot and the commitment the verifier holds.
Slot(evals_, poly, comm) == [evals |-> evals_, poly |-> poly, comm |-> comm]

\* The non-optional slots: PERMUTS - 1 sigma columns, COLUMNS coefficient
\* columns, COLUMNS witness columns, z and the six selectors.
EvaluationSlots ==
    LET e == chunked_evals[1]
        vi == index[1]
    IN  [i \in 1 .. PERMUTS - 1 |->
            Slot(e.s[i], from_coefficients_vec(<<0, vi.shift[i]>>), vi.sigma_comm[i])]
        \o [i \in 1 .. COLUMNS |->
            Slot(e.coefficients[i],
                 IF i = 1 THEN one_polynomial ELSE zero_polynomial,
                 vi.coefficients_comm[i])]
        \o [i \in 1 .. COLUMNS |->
            Slot(e.w[i], IF i = 1 THEN witness_poly ELSE zero_polynomial, w_comm[i])]
        \o <<Slot(e.z, one_polynomial, z_comm[1]),
             Slot(e.generic_selector, one_polynomial, vi.generic_comm),
             Slot(e.poseidon_selector, zero_polynomial, vi.psm_comm),
             Slot(e.complete_add_selector, zero_polynomial, vi.complete_add_comm),
             Slot(e.mul_selector, zero_polynomial, vi.mul_comm),
             Slot(e.emul_selector, zero_polynomial, vi.emul_comm),
             Slot(e.endomul_scalar_selector, zero_polynomial, vi.endomul_scalar_comm)>>

\* omega generates the domain of N points.
DomainGenerator ==
    /\ Fpow(omega, N) = 1
    /\ \A k \in 1 .. N - 1 : Fpow(omega, k) # 1

\* C15: every non-optional slot of the evaluation record (PERMUTS - 1 sigma
\* columns, COLUMNS coefficient columns, COLUMNS witness columns, z and the
\* six selectors) holds one evaluation at zeta and one at zeta * omega, with
\* omega the generator of the domain, and the pair is the slot's committed
\* polynomial at the two points: shift[i] * x for sigma i, the constants 1
\* and 0, and the interpolation of the padded witness for witness column 0.
C15_EvaluationPairs ==
    chunked_evals # <<>> =>
       /\ DomainGenerator
       /\ zeta_omega = Fmul(zeta, omega)
       /\ Len(EvaluationSlots) = (PERMUTS - 1) + COLUMNS + COLUMNS + 1 + 6
       /\ witness_poly = Interpolate(witness)
       /\ Len(witness) = index[1].domain
       /\ \A k \in 1 .. Len(EvaluationSlots) :
             LET slot == EvaluationSlots[k]
             IN  /\ slot.evals = PointEvaluations(<<PolyEval(slot.poly, zeta)>>,
                                                  <<PolyEval(slot.poly, zeta_omega)>>)
                 /\ \E b \in {0, 1} :
                       slot.comm = PolyComm(<<Commit(slot.poly, b)>>)

\* Evaluations just taken of a witness polynomial that is not constant, at a
\* zeta that is neither 0 nor in the domain.
C15_Witness ==
    /\ pc = "Linearize"
    /\ chunked_evals # <<>>
    /\ Len(witness_poly) >= 2
    /\ zeta # 0 /\ Fpow(zeta, N) # 1
    /\ chunked_evals[1].w[1].zeta # chunked_evals[1].w[1].zeta_omega

\* The commitment the verifier holds for each entry of the opening list, in
\* the list's order: the recursion challenges' commitments, the public
\* commitment the prover absorbed, the commitment to ft the verifier puts
\* together, and the commitments of the proof and of the index.
HeldCommitments ==
    LET vi == index[1]
        prf == proof[1]
    IN  [i \in 1 .. Len(prev_challenges) |-> prev_challenges[i].comm]
        \o <<public_comm[1],
             ft_comm(vi, LinearizedProof, evals, LinearizedOracles),
             prf.commitments.z_comm,
             vi.generic_comm, vi.psm_comm, vi.complete_add_comm, vi.mul_comm,
             vi.emul_comm, vi.endomul_scalar_comm>>
        \o prf.commitments.w_comm
        \o vi.coefficients_comm
        \o SubSeq(vi.sigma_comm, 1, PERMUTS - 1)

\* The position of ft in the opening list.
FtEntry == Len(prev_challenges) + 2

\* Every entry (p, b) is opened against commit(p) + b * h.
OpeningConsistent ==
    /\ Len(HeldCommitments) = Len(polynomials_to_open)
    /\ public_comm[1] = verifier_public_comm(public_inputs)
    /\ \A i \in 1 .. Len(polynomials_to_open) :
          LET opened == polynomials_to_open[i]
          IN  /\ Len(opened.blinding.unshifted) = 1
              /\ opened.blinding.shifted = <<>>
              /\ HeldCommitments[i]
                 = PolyComm(<<Commit(opened.poly, opened.blinding.unshifted[1])>>)

\* The blinding each kind of polynomial is opened with: 1 for the negated
\* public polynomial, witness column 0 and the zero polynomials, whose
\* commitment is h, and 0 for the recursion polynomials, the constant 1 and
\* the polynomials shift[i] * x.
BlindingOf(i) ==
    LET opened == polynomials_to_open[i]
        b == opened.blinding.unshifted[1]
        k == Len(prev_challenges)
        ones == {k + 3, k + 4, k + 10 + COLUMNS}
        zeros == (k + 5 .. k + 9) \cup (k + 11 .. k + 9 + COLUMNS)
                 \cup (k + 11 + COLUMNS .. k + 9 + 2 * COLUMNS)
    IN  /\ i <= k => b = 0
        /\ i = k + 1 => opened.poly = public_poly /\ b = 1
        /\ i = k + 10 => opened.poly = witness_poly /\ b = 1
        /\ i \in zeros => /\ opened.poly = zero_polynomial /\ b = 1
                          /\ HeldCommitments[i] = PolyComm(<<SrsH>>)
        /\ i \in ones => opened.poly = one_polynomial /\ b = 0
        /\ i > k + 9 + 2 * COLUMNS
              => /\ opened.poly = shifted_poly(index[1].shift[i - (k + 9 + 2 * COLUMNS)])
                 /\ b = 0

\* The blinding of ft: - (zeta^n - 1) * sum_j zeta^(n * j), from the seven
\* quotient chunks blinded with 1.
FtBlinding ==
    Fneg(Fmul(Fsub(Fpow(zeta, N), 1),
              SeqSum([j \in 1 .. 7 |-> Fpow(zeta, SrsSize * (j - 1))])))

\* C17 as stated: every entry of the opening list is opened against
\* commit(p) + b * h, with the blindings named, and every blinding factor is
\* the constant 0 or 1.
C17_StatedOpeningConsistency ==
    pc = "Done" =>
       /\ OpeningConsistent
       /\ \A i \in 1 .. Len(polynomials_to_open) :
             /\ BlindingOf(i)
             /\ polynomials_to_open[i].blinding.unshifted[1] \in {0, 1}

\* C17: for every entry (p, b) of the opening list the commitment the
\* verifier holds for the slot is commit(p) + b * h; the negated public
\* polynomial and witness column 0 use blinding 1, the zero polynomials use
\* blinding 1 and the commitment h, the constant 1 and the polynomials
\* shift[i] * x use blinding 0; every blinding factor but that of ft is the
\* constant 0 or 1, the blinding of ft is - (zeta^n - 1) * sum_j zeta^(n * j),
\* a value of zeta alone, and none depends on the randomness drawn.
C17_OpeningConsistency ==
    pc = "Done" =>
       /\ OpeningConsistent
       /\ \A i \in 1 .. Len(polynomials_to_open) :
             /\ BlindingOf(i)
             /\ i # FtEntry => polynomials_to_open[i].blinding.unshifted[1] \in {0, 1}
       /\ polynomials_to_open[FtEntry].poly = ft
       /\ polynomials_to_open[FtEntry].blinding.unshifted[1] = FtBlinding
       /\ polynomials_to_open
          = polynomials_to_open_of(prev_challenges, public_poly, ft,
                                   PolyComm(<<FtBlinding>>), witness_poly,
                                   index[1].shift)

\* A finished call with a recursion challenge and a non-zero public input
\* whose ft is opened with a blinding that is neither 0 nor 1.
C17_Witness ==
    /\ pc = "Done"
    /\ Len(prev_challenges) > 0
    /\ \E k \in 1 .. Len(public_inputs) : public_inputs[k] # 0
    /\ Len(draws) > 0
    /\ polynomials_to_open[FtEntry].blinding.unshifted[1] \notin {0, 1}

\* The operations of the transcript on one sponge.
OpsOn(name) == SelectSeq(transcript, LAMBDA o : o.sponge = name)

\* The operations on the base-field sponge before its digest.
BeforeDigest == SubSeq(OpsOn("fq"), 1, Len(OpsOn("fq")) - 1)

\* What the base-field sponge absorbs, in order: the index digest and the
\* commitments.
AbsorbedByFq ==
    <<"verifier_index_digest">>
    \o Repeat("prev_challenges.comm", Len(prev_challenges))
    \o <<"public_comm">> \o Repeat("w_comm", COLUMNS) \o <<"z_comm", "t_comm">>

ItemsAbsorbed(ops) ==
    LET absorbs == SelectSeq(ops, LAMBDA o : o.op = "absorb")
    IN  [i \in 1 .. Len(absorbs) |-> absorbs[i].item]

\* C19: the base-field sponge handed to the opening is the one captured
\* after zeta' was squeezed and before the digest: it has absorbed the index
\* digest and the commitments and nothing else, no evaluation among them;
\* the base-field sponge is digested once, and that is the last operation on
\* it; the digest of the recursion challenges is taken in a scalar sponge of
\* its own, started fresh, and the main scalar sponge absorbs it whether or
\* not there are recursion challenges.
C19_SpongeHandedToOpening ==
    pc \in {"Open", "Done"} =>
       LET fq == OpsOn("fq")
           fr == OpsOn("fr")
           fr_prev == OpsOn("fr_prev")
           k == Len(prev_challenges)
       IN  /\ fq_sponge = <<>>
           /\ fq[Len(fq)].op = "digest"
           /\ \A i \in 1 .. Len(fq) - 1 : fq[i].op # "digest"
           /\ BeforeDigest[Len(BeforeDigest)] = Challenge("fq", "zeta")
           /\ ItemsAbsorbed(BeforeDigest) = AbsorbedByFq
           /\ fq_sponge_before_evaluations
              = <<RunOps("fq", FqSpongeNew, BeforeDigest)>>
           /\ fr[1] = Absorb("fr", "fq_sponge.digest",
                             <<SpongeDigest(fq_sponge_before_evaluations[1])>>)
           /\ pc = "Done" =>
                 proof[1].proof.sponge = fq_sponge_before_evaluations[1]
           /\ fr_prev = [i \in 1 .. k |->
                            Absorb("fr_prev", "chals", prev_challenges[i].chals)]
                        \o <<Digest("fr_prev")>>
           /\ fr[2] = Absorb("fr", "prev_challenge_digest",
                             <<SpongeDigest(RunOps("fr_prev", FrSpongeNew, fr_prev))>>)
           /\ \A i \in 1 .. Len(fr) : fr[i].item # "chals"
           /\ fr_sponge = <<RunOps("fr", FrSpongeNew, fr)>>

\* A proof returned by a call without recursion challenges, whose scalar
\* sponge absorbed the digest of a sponge that absorbed nothing.
C19_Witness ==
    /\ pc = "Done"
    /\ Len(prev_challenges) = 0
    /\ proof # <<>>
    /\ Absorb("fr", "prev_challenge_digest", <<SpongeDigest(FrSpongeNew)>>)
       \in {transcript[i] : i \in 1 .. Len(transcript)}
    /\ proof[1].proof.sponge # FqSpongeNew

=============================================================================
